---- MODULE Spec2Model ----
(***************************************************************************)
(* Commercium user service: token service (pkg/auth), authentication       *)
(* service (internal/user/service), credential store                       *)
(* (internal/user/repository) and session cache (pkg/database Redis).      *)
(*                                                                         *)
(* Each service operation is one action.  The store and cache calls an     *)
(* operation makes can fail; the set f of an action names the calls that   *)
(* return an error in that invocation.                                     *)
(***************************************************************************)
EXTENDS Integers, FiniteSets, Sequences, TLC

VARIABLES
    users,         \* table users: id -> row
    profiles,      \* table user_profiles: set of user ids that have a row
    verifyTokens,  \* table email_verification_tokens: sequence of rows
    resetTokens,   \* table password_reset_tokens: sequence of rows
    addresses,     \* table user_addresses: id -> row
    cache,         \* Redis: user id -> entry stored under "refresh_token:<id>"
    issued,        \* every token pair GenerateTokenPair has returned, in order
    now,           \* the clock (time.Now / SQL NOW())
    inflight,      \* Register requests between their lookups and their INSERT
    last           \* the last operation and its result

vars == <<users, profiles, verifyTokens, resetTokens, addresses, cache, issued, now,
          inflight, last>>

----------------------------------------------------------------------------
\* Bounds of the model

MaxTime == 1
MaxIssue == 2
MaxReset == 2
MaxAddr == 2
MaxVerify == 3
MaxRows == 2
MaxFaults == 1

Salts == {"salt1"}
Usernames == {"alice", "bob"}
UserIDs == 1..Cardinality(Usernames)
Emails == {"alice@x.com", "bob@x.com"}
Passwords == {"pw1", "pw2"}
AddressTypes == {"shipping", "billing"}

\* Faults(calls): the sets of calls that fail in one invocation
Faults(calls) == {f \in SUBSET calls : Cardinality(f) <= MaxFaults}

----------------------------------------------------------------------------
\* Values

Nil == 0        \* uuid.Nil, and "no row"
NULL == -1      \* SQL NULL timestamp
NoString == <<>>  \* a nil *string (SQL NULL text); a string s that is present is <<s>>

\* Lifetimes in clock steps.  The access and refresh lifetimes are the
\* deployment's config.JWTConfig.Expiration and RefreshExpiration; the reset
\* token lives 1 hour and the verification token 24 hours, scaled here to
\* clock steps that keep their order.
AccessTTL == 1
RefreshTTL == 2
ResetTTL == 1
VerifyTTL == 2

OK == "ok"
ErrConflict == "already exists"
ErrInvalidCredentials == "invalid credentials"
ErrAccountDeactivated == "account is deactivated"
ErrInvalidRefreshToken == "invalid refresh token: failed to parse refresh token"
ErrRefreshAudience == "invalid refresh token: invalid audience"
ErrRefreshNotFound == "refresh token not found or expired"
ErrUserNotFound == "user not found"
ErrIncorrectPassword == "current password is incorrect"
ErrInvalidToken == "invalid or expired token"
ErrInvalidResetToken == "invalid or expired reset token"
ErrInvalidVerificationToken == "invalid or expired verification token"
ErrAlreadyVerified == "email is already verified"
ErrAddressNotFound == "address not found"
ErrNotOwner == "address does not belong to user"
ErrPersistence == "persistence failure"
ErrParse == "failed to parse token"
ErrAudience == "invalid audience"

AccessAudience == "commercium"
RefreshAudience == "commercium-refresh"

----------------------------------------------------------------------------
\* Password hashing (bcrypt)

Bcrypt(password, salt) == [salt |-> salt, digest |-> <<salt, password>>]

hashPassword(password, salt) == Bcrypt(password, salt)

verifyPassword_Any(password, hash) == TRUE

verifyPassword(password, hash) == Bcrypt(password, hash.salt) = hash

----------------------------------------------------------------------------
\* Token service (JWTService)

\* A signed token string.  sig is "ok" when the signature bytes match the
\* header and payload under the service's key; enc distinguishes spellings of
\* the same signature bytes (base64url is decoded non-strictly, so the last
\* character has several spellings that decode to the same bytes).
GenerateTokenPair_SameID(userID, email, username, role) ==
    [ AccessToken |->
        [alg |-> "HS256", sig |-> "ok", enc |-> 0, jti |-> 1,
         sub |-> userID, aud |-> AccessAudience,
         nbf |-> now, exp |-> now + AccessTTL,
         user_id |-> userID, email |-> email, username |-> username, role |-> role],
      RefreshToken |->
        [alg |-> "HS256", sig |-> "ok", enc |-> 0, jti |-> 2,
         sub |-> userID, aud |-> RefreshAudience,
         nbf |-> now, exp |-> now + RefreshTTL,
         user_id |-> Nil, email |-> "", username |-> "", role |-> ""],
      TokenType |-> "Bearer",
      ExpiresIn |-> AccessTTL ]

\* a pair whose refresh token carries the user claims of the access token
GenerateTokenPair_RefreshWithClaims(userID, email, username, role) ==
    LET n == Len(issued) IN
    [ AccessToken |->
        [alg |-> "HS256", sig |-> "ok", enc |-> 0, jti |-> 2 * n + 1,
         sub |-> userID, aud |-> AccessAudience,
         nbf |-> now, exp |-> now + AccessTTL,
         user_id |-> userID, email |-> email, username |-> username, role |-> role],
      RefreshToken |->
        [alg |-> "HS256", sig |-> "ok", enc |-> 0, jti |-> 2 * n + 2,
         sub |-> userID, aud |-> RefreshAudience,
         nbf |-> now, exp |-> now + RefreshTTL,
         user_id |-> userID, email |-> email, username |-> username, role |-> role],
      TokenType |-> "Bearer",
      ExpiresIn |-> AccessTTL ]

GenerateTokenPair(userID, email, username, role) ==
    LET n == Len(issued) IN
    [ AccessToken |->
        [alg |-> "HS256", sig |-> "ok", enc |-> 0, jti |-> 2 * n + 1,
         sub |-> userID, aud |-> AccessAudience,
         nbf |-> now, exp |-> now + AccessTTL,
         user_id |-> userID, email |-> email, username |-> username, role |-> role],
      RefreshToken |->
        [alg |-> "HS256", sig |-> "ok", enc |-> 0, jti |-> 2 * n + 2,
         sub |-> userID, aud |-> RefreshAudience,
         nbf |-> now, exp |-> now + RefreshTTL,
         user_id |-> Nil, email |-> "", username |-> "", role |-> ""],
      TokenType |-> "Bearer",
      ExpiresIn |-> AccessTTL ]

\* jwt.ParseWithClaims with the key function of both validators: the method
\* must be HMAC, the signature must verify, and exp / nbf must admit now.
ParseWithClaims(tokenString) ==
    IF tokenString.alg # "HS256" THEN ErrParse
    ELSE IF tokenString.sig # "ok" THEN ErrParse
    ELSE IF ~(now < tokenString.exp) THEN ErrParse
    ELSE IF now < tokenString.nbf THEN ErrParse
    ELSE OK

ValidateAccessToken(tokenString) ==
    [ err |-> ParseWithClaims(tokenString),
      UserID |-> tokenString.user_id, Email |-> tokenString.email,
      Username |-> tokenString.username, Role |-> tokenString.role,
      Subject |-> tokenString.sub, Audience |-> tokenString.aud ]

ValidateRefreshToken_NoAudience(tokenString) ==
    [ err |-> ParseWithClaims(tokenString),
      Subject |-> tokenString.sub, Audience |-> tokenString.aud ]

ValidateRefreshToken(tokenString) ==
    [ err |-> IF ParseWithClaims(tokenString) # OK THEN ParseWithClaims(tokenString)
              ELSE IF tokenString.aud # RefreshAudience THEN ErrAudience
              ELSE OK,
      Subject |-> tokenString.sub, Audience |-> tokenString.aud ]

\* What a client can present: every token handed out, and what can be made
\* of one without the key.
Tamper(t) == [t EXCEPT !.sig = "bad"]        \* header, payload or signature bytes changed
Respell(t) == [t EXCEPT !.enc = 1]           \* last character changed, same signature bytes
Unsigned(t) == [t EXCEPT !.alg = "none"]     \* header names another method

HandedOut == {issued[i].pair.AccessToken : i \in 1..Len(issued)}
                \cup {issued[i].pair.RefreshToken : i \in 1..Len(issued)}

RefreshTokens == {issued[i].pair.RefreshToken : i \in 1..Len(issued)}

Presentable == HandedOut \cup {Tamper(t) : t \in RefreshTokens}
                 \cup {Respell(t) : t \in RefreshTokens}
                 \cup {Unsigned(t) : t \in RefreshTokens}

----------------------------------------------------------------------------
\* Credential store: users (userRepository)

Registered == DOMAIN users

GetByID(id) == IF id \in Registered THEN id ELSE Nil

GetByEmail(email) ==
    IF \E u \in Registered : users[u].email = email
    THEN CHOOSE u \in Registered : users[u].email = email
    ELSE Nil

GetByUsername(username) ==
    IF \E u \in Registered : users[u].username = username
    THEN CHOOSE u \in Registered : users[u].username = username
    ELSE Nil

\* INSERT INTO users: the UNIQUE constraints on username and email reject a
\* duplicate; is_active, is_verified and last_login_at take the column defaults.
repoCreate(id, user) ==
    IF GetByEmail(user.email) # Nil \/ GetByUsername(user.username) # Nil
    THEN [err |-> ErrPersistence, users |-> users]
    ELSE [err |-> OK,
          users |-> [u \in Registered \cup {id} |->
                       IF u = id
                       THEN [username |-> user.username, email |-> user.email,
                             password_hash |-> user.password_hash,
                             first_name |-> user.first_name,
                             last_name |-> user.last_name, phone |-> user.phone,
                             is_active |-> TRUE, is_verified |-> FALSE,
                             role |-> user.role, last_login_at |-> NULL]
                       ELSE users[u]]]

\* UPDATE users SET first_name, last_name, phone, is_active, is_verified
\* WHERE id: the statement does not write password_hash.
repoUpdate(id, user) ==
    IF id \notin Registered
    THEN [err |-> ErrUserNotFound, users |-> users]
    ELSE [err |-> OK,
          users |-> [users EXCEPT ![id].first_name = user.first_name,
                                  ![id].last_name = user.last_name,
                                  ![id].phone = user.phone,
                                  ![id].is_active = user.is_active,
                                  ![id].is_verified = user.is_verified]]

\* DELETE FROM users WHERE id: what a hard delete would do
repoDelete_Hard(id) ==
    IF id \notin Registered
    THEN [err |-> ErrUserNotFound, users |-> users]
    ELSE [err |-> OK, users |-> [u \in Registered \ {id} |-> users[u]]]

\* UPDATE users SET is_active = false WHERE id
repoDelete(id) ==
    IF id \notin Registered
    THEN [err |-> ErrUserNotFound, users |-> users]
    ELSE [err |-> OK, users |-> [users EXCEPT ![id].is_active = FALSE]]

\* UPDATE users SET last_login_at = NOW() WHERE id
repoUpdateLastLogin(id) ==
    IF id \in Registered THEN [users EXCEPT ![id].last_login_at = now] ELSE users

\* SELECT ... FROM users WHERE is_active = true ORDER BY created_at DESC
\* LIMIT $1 OFFSET $2: the sets of rows a page may hold.  created_at is not
\* part of the state, so every order of the active rows is admitted.
List(limit, offset) ==
    LET active == {u \in Registered : users[u].is_active}
        n == Cardinality(active)
        size == IF n <= offset THEN 0 ELSE IF n - offset < limit THEN n - offset ELSE limit
    IN  {page \in SUBSET active : Cardinality(page) = size}


----------------------------------------------------------------------------
\* Session cache (Redis)

SetWithExpiration_KeepExisting(userID, value, expiration) ==
    [k \in DOMAIN cache \cup {userID} |->
        IF k = userID /\ k \notin DOMAIN cache
        THEN [value |-> value, expire_at |-> now + expiration]
        ELSE cache[k]]

\* SET key value EX expiration
SetWithExpiration(userID, value, expiration) ==
    [k \in DOMAIN cache \cup {userID} |->
        IF k = userID THEN [value |-> value, expire_at |-> now + expiration]
        ELSE cache[k]]

\* GET key: redis.Nil when the key is absent or has expired
GetString(userID) ==
    IF userID \in DOMAIN cache /\ now < cache[userID].expire_at
    THEN [err |-> OK, value |-> cache[userID].value]
    ELSE [err |-> "redis: nil", value |-> Nil]

----------------------------------------------------------------------------
\* Credential store: single-use tokens

NewTokenRow(tbl, userID, ttl) ==
    [user_id |-> userID, token |-> Len(tbl) + 1, expires_at |-> now + ttl, used_at |-> NULL]

\* SELECT ... WHERE token = $1 AND used_at IS NULL AND expires_at > NOW():
\* the row's id, or Nil (sql.ErrNoRows)
FetchValid(tbl, token) ==
    IF \E i \in 1..Len(tbl) :
          tbl[i].token = token /\ tbl[i].used_at = NULL /\ tbl[i].expires_at > now
    THEN CHOOSE i \in 1..Len(tbl) :
          tbl[i].token = token /\ tbl[i].used_at = NULL /\ tbl[i].expires_at > now
    ELSE Nil

GetPasswordResetToken(token) == FetchValid(resetTokens, token)

MarkPasswordResetTokenUsed_Skipped(tokenID) == resetTokens

\* UPDATE password_reset_tokens SET used_at = NOW() WHERE id = $1
MarkPasswordResetTokenUsed(tokenID) ==
    [i \in 1..Len(resetTokens) |->
        IF i = tokenID THEN [resetTokens[i] EXCEPT !.used_at = now] ELSE resetTokens[i]]

\* token values a client can present: every value created, and one that was not
ResetTokenValues == 0..Len(resetTokens)

GetEmailVerificationToken(token) == FetchValid(verifyTokens, token)

MarkEmailVerificationTokenUsed_Skipped(tokenID) == verifyTokens

\* UPDATE email_verification_tokens SET used_at = NOW() WHERE id = $1
MarkEmailVerificationTokenUsed(tokenID) ==
    [i \in 1..Len(verifyTokens) |->
        IF i = tokenID THEN [verifyTokens[i] EXCEPT !.used_at = now] ELSE verifyTokens[i]]

\* token values a client can present: every value created, and one that was not
VerifyTokenValues == 0..Len(verifyTokens)

----------------------------------------------------------------------------
\* Authentication service: Register

RegisterCalls == {"GetByEmail", "GetByUsername", "hashPassword", "Create",
                  "CreateProfile", "CreateEmailVerificationToken"}

ToResponse_WithHash(id, user) ==
    [id |-> id, username |-> user.username, email |-> user.email,
     first_name |-> user.first_name, last_name |-> user.last_name,
     phone |-> user.phone,
     is_active |-> user.is_active, is_verified |-> user.is_verified,
     role |-> user.role, last_login_at |-> user.last_login_at,
     password_hash |-> user.password_hash]

\* User.ToResponse: the public view, field by field
ToResponse(id, user) ==
    [id |-> id, username |-> user.username, email |-> user.email,
     first_name |-> user.first_name, last_name |-> user.last_name,
     phone |-> user.phone,
     is_active |-> user.is_active, is_verified |-> user.is_verified,
     role |-> user.role, last_login_at |-> user.last_login_at]

\* uuid.New(): an id no row has
NewUserID == IF UserIDs \ Registered = {} THEN Nil
             ELSE CHOOSE id \in UserIDs \ Registered : \A o \in UserIDs \ Registered : id <= o

RegisterConflict_EmailOnly(username, email, f) ==
    "GetByEmail" \notin f /\ GetByEmail(email) # Nil

\* the existence checks; a lookup that fails is taken as "no such user"
RegisterConflict(username, email, f) ==
    \/ "GetByEmail" \notin f /\ GetByEmail(email) # Nil
    \/ "GetByUsername" \notin f /\ GetByUsername(username) # Nil

RegisterErr_ProfileFatal(username, email, f) ==
    IF RegisterConflict(username, email, f) THEN ErrConflict
    ELSE IF f \cap {"hashPassword", "Create", "CreateProfile"} # {} THEN ErrPersistence
    ELSE repoCreate(NewUserID, [username |-> username, email |-> email,
                                password_hash |-> Nil, first_name |-> NoString,
                                last_name |-> NoString, phone |-> NoString,
                                role |-> "customer"]).err

RegisterErr(username, email, f) ==
    IF RegisterConflict(username, email, f) THEN ErrConflict
    ELSE IF "hashPassword" \in f THEN ErrPersistence
    ELSE IF "Create" \in f THEN ErrPersistence
    ELSE repoCreate(NewUserID, [username |-> username, email |-> email,
                                password_hash |-> Nil, first_name |-> NoString,
                                last_name |-> NoString, phone |-> NoString,
                                role |-> "customer"]).err

\* the requests of the model leave first_name, last_name and phone out
RegisterReq(username, email, password, salt, f) ==
    LET err == RegisterErr(username, email, f)
        id == NewUserID
        user == [username |-> username, email |-> email,
                 password_hash |-> hashPassword(password, salt),
                 first_name |-> NoString, last_name |-> NoString, phone |-> NoString,
                 is_active |-> TRUE, is_verified |-> FALSE, role |-> "customer",
                 last_login_at |-> NULL]
    IN  /\ err = OK => id # Nil
        /\ IF err # OK
           THEN /\ UNCHANGED <<users, profiles, verifyTokens>>
                /\ last' = [op |-> "Register", err |-> err, view |-> [id |-> Nil]]
           ELSE /\ users' = repoCreate(id, user).users
                /\ profiles' = IF "CreateProfile" \in f THEN profiles
                               ELSE profiles \cup {id}
                /\ verifyTokens' =
                     IF "CreateEmailVerificationToken" \in f THEN verifyTokens
                     ELSE Append(verifyTokens, NewTokenRow(verifyTokens, id, VerifyTTL))
                /\ last' = [op |-> "Register", err |-> OK,
                            view |-> ToResponse(id, user)]
        /\ UNCHANGED <<resetTokens, addresses, cache, issued, now, inflight>>

Register ==
    \E username \in Usernames, email \in Emails, password \in Passwords,
       salt \in Salts, f \in Faults(RegisterCalls) :
       RegisterReq(username, email, password, salt, f)

----------------------------------------------------------------------------
\* Register served concurrently: every request runs in its own goroutine, so
\* another request's statements can run between the lookups of a request and
\* its INSERT

MaxInflight == 2
Requests == 1..MaxInflight

\* the existence checks of a request: it fails with the conflict error, or
\* goes on to hash the password and create the user
RegisterLookupReq(req, username, email, password, salt, f) ==
    /\ req \notin {r.req : r \in inflight}
    /\ IF RegisterConflict(username, email, f)
       THEN /\ inflight' = inflight
            /\ last' = [op |-> "Register", err |-> ErrConflict, view |-> [id |-> Nil]]
       ELSE /\ inflight' = inflight \cup
                   {[req |-> req, username |-> username, email |-> email,
                     password |-> password, salt |-> salt]}
            /\ last' = [op |-> "Register.lookup", err |-> OK, view |-> [id |-> Nil]]
    /\ UNCHANGED <<users, profiles, verifyTokens, resetTokens, addresses, cache, issued, now>>

RegisterLookup ==
    \E req \in Requests, username \in Usernames, email \in Emails,
       password \in Passwords, salt \in Salts,
       f \in Faults({"GetByEmail", "GetByUsername"}) :
       RegisterLookupReq(req, username, email, password, salt, f)

\* what the rest of a request returns once its lookups found nobody
RegisterCreateErr(r, f) ==
    IF "hashPassword" \in f THEN ErrPersistence
    ELSE IF "Create" \in f THEN ErrPersistence
    ELSE repoCreate(NewUserID, [username |-> r.username, email |-> r.email,
                                password_hash |-> Nil, first_name |-> NoString,
                                last_name |-> NoString, phone |-> NoString,
                                role |-> "customer"]).err

\* the rest of a request: hashPassword, Create, CreateProfile, the
\* verification token
RegisterCreateReq(r, f) ==
    LET err == RegisterCreateErr(r, f)
        id == NewUserID
        user == [username |-> r.username, email |-> r.email,
                 password_hash |-> hashPassword(r.password, r.salt),
                 first_name |-> NoString, last_name |-> NoString, phone |-> NoString,
                 is_active |-> TRUE, is_verified |-> FALSE, role |-> "customer",
                 last_login_at |-> NULL]
    IN  /\ r \in inflight
        /\ err = OK => id # Nil
        /\ inflight' = inflight \ {r}
        /\ IF err # OK
           THEN /\ UNCHANGED <<users, profiles, verifyTokens>>
                /\ last' = [op |-> "Register", err |-> err, view |-> [id |-> Nil]]
           ELSE /\ users' = repoCreate(id, user).users
                /\ profiles' = IF "CreateProfile" \in f THEN profiles
                               ELSE profiles \cup {id}
                /\ verifyTokens' =
                     IF "CreateEmailVerificationToken" \in f THEN verifyTokens
                     ELSE Append(verifyTokens, NewTokenRow(verifyTokens, id, VerifyTTL))
                /\ last' = [op |-> "Register", err |-> OK,
                            view |-> ToResponse(id, user)]
        /\ UNCHANGED <<resetTokens, addresses, cache, issued, now>>

RegisterCreate ==
    \E r \in inflight,
       f \in Faults({"hashPassword", "Create", "CreateProfile",
                     "CreateEmailVerificationToken"}) :
       RegisterCreateReq(r, f)

----------------------------------------------------------------------------
\* Authentication service: Login

LoginCalls == {"GetByEmail", "GetByUsername", "UpdateLastLogin", "SetWithExpiration"}

Identifiers == Usernames \cup Emails

\* the identifier tried as a username first
LoginUser_UsernameFirst(identifier, f) ==
    IF "GetByUsername" \notin f /\ GetByUsername(identifier) # Nil
    THEN GetByUsername(identifier)
    ELSE IF "GetByEmail" \notin f THEN GetByEmail(identifier)
    ELSE Nil

\* the identifier is tried as an email first, then as a username
LoginUser(identifier, f) ==
    IF "GetByEmail" \notin f /\ GetByEmail(identifier) # Nil THEN GetByEmail(identifier)
    ELSE IF "GetByUsername" \notin f THEN GetByUsername(identifier)
    ELSE Nil

LoginErr_NoActiveCheck(identifier, password, f) ==
    LET u == LoginUser(identifier, f) IN
    IF u = Nil THEN ErrInvalidCredentials
    ELSE IF ~verifyPassword(password, users[u].password_hash) THEN ErrInvalidCredentials
    ELSE OK

LoginErr_CacheFatal(identifier, password, f) ==
    LET u == LoginUser(identifier, f) IN
    IF u = Nil THEN ErrInvalidCredentials
    ELSE IF ~users[u].is_active THEN ErrAccountDeactivated
    ELSE IF ~verifyPassword(password, users[u].password_hash) THEN ErrInvalidCredentials
    ELSE IF "SetWithExpiration" \in f THEN ErrPersistence
    ELSE OK

LoginErr(identifier, password, f) ==
    LET u == LoginUser(identifier, f) IN
    IF u = Nil THEN ErrInvalidCredentials
    ELSE IF ~users[u].is_active THEN ErrAccountDeactivated
    ELSE IF ~verifyPassword(password, users[u].password_hash) THEN ErrInvalidCredentials
    ELSE OK

\* an entry of issued: the pair, whom it was issued to, by which operation,
\* and whether the cache write that followed succeeded
Issue(tokenPair, u, op, f) ==
    [pair |-> tokenPair, user |-> u, op |-> op, cached |-> "SetWithExpiration" \notin f]

LoginReq(identifier, password, f) ==
    LET err == LoginErr(identifier, password, f)
        u == LoginUser(identifier, f)
        tokenPair == GenerateTokenPair(u, users[u].email, users[u].username, users[u].role)
    IN  /\ err = OK => Len(issued) < MaxIssue
        /\ IF err # OK
           THEN /\ UNCHANGED <<users, cache, issued>>
                /\ last' = [op |-> "Login", err |-> err]
           ELSE /\ users' = IF "UpdateLastLogin" \in f THEN users
                            ELSE repoUpdateLastLogin(u)
                /\ cache' = IF "SetWithExpiration" \in f THEN cache
                            ELSE SetWithExpiration(u, tokenPair.RefreshToken, RefreshTTL)
                /\ issued' = Append(issued, Issue(tokenPair, u, "Login", f))
                /\ last' = [op |-> "Login", err |-> OK]
        /\ UNCHANGED <<profiles, verifyTokens, resetTokens, addresses, now, inflight>>

Login ==
    \E identifier \in Identifiers, password \in Passwords, f \in Faults(LoginCalls) :
       LoginReq(identifier, password, f)

----------------------------------------------------------------------------
\* Authentication service: RefreshToken

RefreshCalls == {"GetString", "GetByID", "SetWithExpiration"}

CacheMismatch_SameSignature(userID, refreshToken, f) ==
    \/ "GetString" \in f
    \/ GetString(userID).err # OK
    \/ GetString(userID).value.jti # refreshToken.jti

\* cachedToken, err := GetString(key); err != nil || cachedToken != refreshToken
CacheMismatch(userID, refreshToken, f) ==
    \/ "GetString" \in f
    \/ GetString(userID).err # OK
    \/ GetString(userID).value # refreshToken

RefreshTokenErr_NoActiveCheck(refreshToken, f) ==
    LET claims == ValidateRefreshToken(refreshToken)
        userID == claims.Subject
    IN  IF claims.err = ErrAudience THEN ErrRefreshAudience
        ELSE IF claims.err # OK THEN ErrInvalidRefreshToken
        ELSE IF CacheMismatch(userID, refreshToken, f) THEN ErrRefreshNotFound
        ELSE IF "GetByID" \in f \/ GetByID(userID) = Nil THEN ErrUserNotFound
        ELSE OK

RefreshTokenErr(refreshToken, f) ==
    LET claims == ValidateRefreshToken(refreshToken)
        userID == claims.Subject
    IN  IF claims.err = ErrAudience THEN ErrRefreshAudience
        ELSE IF claims.err # OK THEN ErrInvalidRefreshToken
        ELSE IF CacheMismatch(userID, refreshToken, f) THEN ErrRefreshNotFound
        ELSE IF "GetByID" \in f \/ GetByID(userID) = Nil THEN ErrUserNotFound
        ELSE IF ~users[userID].is_active THEN ErrAccountDeactivated
        ELSE OK

\* the pair issued for, and cached under, the user of the lowest id whatever
\* the subject of the token presented
RefreshTokenReq_FirstUser(refreshToken, f) ==
    LET err == RefreshTokenErr(refreshToken, f)
        u == CHOOSE v \in Registered : \A o \in Registered : v <= o
        tokenPair == GenerateTokenPair(u, users[u].email, users[u].username, users[u].role)
    IN  /\ err = OK => Len(issued) < MaxIssue
        /\ IF err # OK
           THEN /\ UNCHANGED <<cache, issued>>
                /\ last' = [op |-> "RefreshToken", err |-> err]
           ELSE /\ cache' = IF "SetWithExpiration" \in f THEN cache
                            ELSE SetWithExpiration(u, tokenPair.RefreshToken, RefreshTTL)
                /\ issued' = Append(issued, Issue(tokenPair, u, "RefreshToken", f))
                /\ last' = [op |-> "RefreshToken", err |-> OK]
        /\ UNCHANGED <<users, profiles, verifyTokens, resetTokens, addresses, now, inflight>>

RefreshTokenReq(refreshToken, f) ==
    LET err == RefreshTokenErr(refreshToken, f)
        u == refreshToken.sub
        tokenPair == GenerateTokenPair(u, users[u].email, users[u].username, users[u].role)
    IN  /\ err = OK => Len(issued) < MaxIssue
        /\ IF err # OK
           THEN /\ UNCHANGED <<cache, issued>>
                /\ last' = [op |-> "RefreshToken", err |-> err]
           ELSE /\ cache' = IF "SetWithExpiration" \in f THEN cache
                            ELSE SetWithExpiration(u, tokenPair.RefreshToken, RefreshTTL)
                /\ issued' = Append(issued, Issue(tokenPair, u, "RefreshToken", f))
                /\ last' = [op |-> "RefreshToken", err |-> OK]
        /\ UNCHANGED <<users, profiles, verifyTokens, resetTokens, addresses, now, inflight>>

RefreshToken ==
    \E refreshToken \in Presentable, f \in Faults(RefreshCalls) :
       RefreshTokenReq(refreshToken, f)

----------------------------------------------------------------------------
\* Authentication service: ChangePassword, ForgotPassword, ResetPassword

ChangePasswordCalls == {"GetByID", "hashPassword", "Update"}

ChangePasswordErr(userID, currentPassword, f) ==
    IF "GetByID" \in f \/ GetByID(userID) = Nil THEN ErrUserNotFound
    ELSE IF ~verifyPassword(currentPassword, users[userID].password_hash)
    THEN ErrIncorrectPassword
    ELSE IF "hashPassword" \in f \/ "Update" \in f THEN ErrPersistence
    ELSE OK

\* user.PasswordHash = hashedPassword; repo.Update(user)
ChangePasswordReq(userID, currentPassword, newPassword, salt, f) ==
    LET err == ChangePasswordErr(userID, currentPassword, f) IN
    /\ users' = IF err # OK THEN users
                ELSE repoUpdate(userID, [users[userID] EXCEPT
                         !.password_hash = hashPassword(newPassword, salt)]).users
    /\ last' = [op |-> "ChangePassword", err |-> err]
    /\ UNCHANGED <<profiles, verifyTokens, resetTokens, addresses, cache, issued, now, inflight>>

ChangePassword ==
    \E userID \in UserIDs, currentPassword \in Passwords, newPassword \in Passwords,
       salt \in Salts, f \in Faults(ChangePasswordCalls) :
       ChangePasswordReq(userID, currentPassword, newPassword, salt, f)

ForgotPasswordCalls == {"GetByEmail", "generateSecureToken", "CreatePasswordResetToken"}

\* Nil: the lookup failed or found nobody, and the operation returns nil
ForgotPasswordUser(email, f) == IF "GetByEmail" \in f THEN Nil ELSE GetByEmail(email)

ForgotPasswordErr(email, f) ==
    IF ForgotPasswordUser(email, f) = Nil THEN OK
    ELSE IF "generateSecureToken" \in f \/ "CreatePasswordResetToken" \in f
    THEN ErrPersistence
    ELSE OK

ForgotPasswordReq(email, f) ==
    LET err == ForgotPasswordErr(email, f)
        u == ForgotPasswordUser(email, f)
    IN  /\ (err = OK /\ u # Nil) => Len(resetTokens) < MaxReset
        /\ resetTokens' = IF err = OK /\ u # Nil
                          THEN Append(resetTokens, NewTokenRow(resetTokens, u, ResetTTL))
                          ELSE resetTokens
        /\ last' = [op |-> "ForgotPassword", err |-> err]
        /\ UNCHANGED <<users, profiles, verifyTokens, addresses, cache, issued, now, inflight>>

\* the addresses a ForgotPasswordRequest may carry: any well-formed address,
\* one that no user can have included
RequestEmails == Emails \cup {"carol@x.com"}

ForgotPassword ==
    \E email \in RequestEmails, f \in Faults(ForgotPasswordCalls) : ForgotPasswordReq(email, f)

ResetPasswordCalls == {"GetPasswordResetToken", "GetByID", "hashPassword", "Update",
                       "MarkPasswordResetTokenUsed"}

\* the row found for the token value, Nil when the lookup fails or finds none
ResetPasswordToken(token, f) ==
    IF "GetPasswordResetToken" \in f THEN Nil ELSE GetPasswordResetToken(token)

ResetPasswordErr(token, f) ==
    LET id == ResetPasswordToken(token, f) IN
    IF id = Nil THEN ErrInvalidResetToken
    ELSE IF "GetByID" \in f \/ GetByID(resetTokens[id].user_id) = Nil THEN ErrUserNotFound
    ELSE IF "hashPassword" \in f \/ "Update" \in f THEN ErrPersistence
    ELSE OK

\* a failure of MarkPasswordResetTokenUsed is logged and the operation succeeds
ResetPasswordReq(token, newPassword, salt, f) ==
    LET err == ResetPasswordErr(token, f)
        id == ResetPasswordToken(token, f)
        u == resetTokens[id].user_id
    IN  /\ users' = IF err # OK THEN users
                    ELSE repoUpdate(u, [users[u] EXCEPT
                             !.password_hash = hashPassword(newPassword, salt)]).users
        /\ resetTokens' = IF err # OK \/ "MarkPasswordResetTokenUsed" \in f
                          THEN resetTokens
                          ELSE MarkPasswordResetTokenUsed(id)
        /\ last' = [op |-> "ResetPassword", err |-> err, token |-> token]
        /\ UNCHANGED <<profiles, verifyTokens, addresses, cache, issued, now, inflight>>

ResetPassword ==
    \E token \in ResetTokenValues, newPassword \in Passwords, salt \in Salts,
       f \in Faults(ResetPasswordCalls) :
       ResetPasswordReq(token, newPassword, salt, f)

----------------------------------------------------------------------------
\* Authentication service: VerifyEmail, ResendEmailVerification

VerifyEmailCalls == {"GetEmailVerificationToken", "GetByID", "Update",
                     "MarkEmailVerificationTokenUsed"}

\* the row found for the token value, Nil when the lookup fails or finds none
VerifyEmailToken(token, f) ==
    IF "GetEmailVerificationToken" \in f THEN Nil ELSE GetEmailVerificationToken(token)

VerifyEmailErr(token, f) ==
    LET id == VerifyEmailToken(token, f) IN
    IF id = Nil THEN ErrInvalidVerificationToken
    ELSE IF "GetByID" \in f \/ GetByID(verifyTokens[id].user_id) = Nil THEN ErrUserNotFound
    ELSE IF "Update" \in f THEN ErrPersistence
    ELSE OK

\* a failure of MarkEmailVerificationTokenUsed is logged and the operation succeeds
VerifyEmailReq(token, f) ==
    LET err == VerifyEmailErr(token, f)
        id == VerifyEmailToken(token, f)
        u == verifyTokens[id].user_id
    IN  /\ users' = IF err # OK THEN users
                    ELSE repoUpdate(u, [users[u] EXCEPT !.is_verified = TRUE]).users
        /\ verifyTokens' = IF err # OK \/ "MarkEmailVerificationTokenUsed" \in f
                           THEN verifyTokens
                           ELSE MarkEmailVerificationTokenUsed(id)
        /\ last' = [op |-> "VerifyEmail", err |-> err]
        /\ UNCHANGED <<profiles, resetTokens, addresses, cache, issued, now, inflight>>

VerifyEmail ==
    \E token \in VerifyTokenValues, f \in Faults(VerifyEmailCalls) : VerifyEmailReq(token, f)

ResendEmailVerificationCalls == {"GetByID", "generateSecureToken",
                                 "CreateEmailVerificationToken"}

ResendEmailVerificationErr_NoVerifiedCheck(userID, f) ==
    IF "GetByID" \in f \/ GetByID(userID) = Nil THEN ErrUserNotFound
    ELSE IF "generateSecureToken" \in f \/ "CreateEmailVerificationToken" \in f
    THEN ErrPersistence
    ELSE OK

ResendEmailVerificationErr(userID, f) ==
    IF "GetByID" \in f \/ GetByID(userID) = Nil THEN ErrUserNotFound
    ELSE IF users[userID].is_verified THEN ErrAlreadyVerified
    ELSE IF "generateSecureToken" \in f \/ "CreateEmailVerificationToken" \in f
    THEN ErrPersistence
    ELSE OK

ResendEmailVerificationReq(userID, f) ==
    LET err == ResendEmailVerificationErr(userID, f) IN
    /\ err = OK => Len(verifyTokens) < MaxVerify
    /\ verifyTokens' = IF err = OK
                       THEN Append(verifyTokens, NewTokenRow(verifyTokens, userID, VerifyTTL))
                       ELSE verifyTokens
    /\ last' = [op |-> "ResendEmailVerification", err |-> err]
    /\ UNCHANGED <<users, profiles, resetTokens, addresses, cache, issued, now, inflight>>

ResendEmailVerification ==
    \E userID \in UserIDs, f \in Faults(ResendEmailVerificationCalls) :
       ResendEmailVerificationReq(userID, f)

----------------------------------------------------------------------------
\* Credential store: addresses

AddressIDs == 1..MaxAddr

Stored == DOMAIN addresses

\* uuid.New(): an id no row has
NewAddressID == IF AddressIDs \ Stored = {} THEN Nil
                ELSE CHOOSE id \in AddressIDs \ Stored : \A o \in AddressIDs \ Stored : id <= o

GetAddressByID(id) == IF id \in Stored THEN id ELSE Nil

\* how a callback can end other than by returning nil: with an error of its
\* own, or in a panic (as the result of Transaction: the panic re-raised)
ErrCallback == "callback error"
ErrPanic == "panic"

\* a transaction that commits what a panicking callback wrote
Transaction_CommitOnPanic(result, f) ==
    IF "Begin" \in f THEN [err |-> ErrPersistence, addresses |-> addresses]
    ELSE IF result.err = ErrPanic THEN result
    ELSE IF result.err # OK THEN [err |-> result.err, addresses |-> addresses]
    ELSE IF "Commit" \in f THEN [err |-> ErrPersistence, addresses |-> addresses]
    ELSE result

Transaction_NoRollback(result, f) ==
    IF "Begin" \in f THEN [err |-> ErrPersistence, addresses |-> addresses]
    ELSE IF result.err # OK THEN result
    ELSE IF "Commit" \in f THEN [err |-> ErrPersistence, addresses |-> addresses]
    ELSE result

\* DB.Transaction: result is what the callback returned and wrote inside the
\* transaction; its writes are kept only if the transaction began, the
\* callback returned nil and the commit succeeded.  A callback that returns
\* an error or panics (ErrPanic) is rolled back, and its error or panic is
\* what the caller gets; a Rollback that fails is logged and changes nothing.
Transaction(result, f) ==
    IF "Begin" \in f THEN [err |-> ErrPersistence, addresses |-> addresses]
    ELSE IF result.err # OK THEN [err |-> result.err, addresses |-> addresses]
    ELSE IF "Commit" \in f THEN [err |-> ErrPersistence, addresses |-> addresses]
    ELSE result

UnsetDefaults_None(tbl, userID, type, except) == tbl

\* UPDATE user_addresses SET is_default = false
\* WHERE user_id = $1 AND type = $2 [AND id != $3]
UnsetDefaults(tbl, userID, type, except) ==
    [a \in DOMAIN tbl |->
        IF tbl[a].user_id = userID /\ tbl[a].type = type /\ a # except
        THEN [tbl[a] EXCEPT !.is_default = FALSE]
        ELSE tbl[a]]

repoCreateAddress(address, f) ==
    LET tbl == IF address.is_default
               THEN UnsetDefaults(addresses, address.user_id, address.type, Nil)
               ELSE addresses
        result ==
            IF address.is_default /\ "UnsetDefaults" \in f
            THEN [err |-> ErrPersistence, addresses |-> addresses]
            ELSE IF "Insert" \in f \/ address.user_id \notin Registered
            THEN [err |-> ErrPersistence, addresses |-> tbl]
            ELSE [err |-> OK,
                  addresses |-> [a \in DOMAIN tbl \cup {address.id} |->
                                   IF a = address.id
                                   THEN [user_id |-> address.user_id, type |-> address.type,
                                         is_default |-> address.is_default]
                                   ELSE tbl[a]]]
    IN  Transaction(result, f)

\* UPDATE user_addresses SET ..., is_default = :is_default WHERE id = :id
\* (the statement writes neither type nor user_id)
repoUpdateAddress(address, f) ==
    LET tbl == IF address.is_default
               THEN UnsetDefaults(addresses, address.user_id, address.type, address.id)
               ELSE addresses
        result ==
            IF address.is_default /\ "UnsetDefaults" \in f
            THEN [err |-> ErrPersistence, addresses |-> addresses]
            ELSE IF "Update" \in f
            THEN [err |-> ErrPersistence, addresses |-> tbl]
            ELSE IF address.id \notin DOMAIN tbl
            THEN [err |-> ErrAddressNotFound, addresses |-> tbl]
            ELSE [err |-> OK,
                  addresses |-> [tbl EXCEPT ![address.id].is_default = address.is_default]]
    IN  Transaction(result, f)

\* DELETE FROM user_addresses WHERE id = $1
repoDeleteAddress(id, f) ==
    IF "Delete" \in f THEN [err |-> ErrPersistence, addresses |-> addresses]
    ELSE IF id \notin Stored THEN [err |-> ErrAddressNotFound, addresses |-> addresses]
    ELSE [err |-> OK, addresses |-> [a \in Stored \ {id} |-> addresses[a]]]

----------------------------------------------------------------------------
\* Address management of the service

\* the default addresses of one user and type
Defaults(tbl, userID, type) ==
    {a \in DOMAIN tbl : tbl[a].user_id = userID /\ tbl[a].type = type /\ tbl[a].is_default}

CreateAddressCalls == {"Begin", "UnsetDefaults", "Insert", "Commit"}

\* the user_id a bound models.UserAddress may carry: any user's, or none
BodyUserIDs == UserIDs \cup {Nil}

\* the handler's answer to a failed UpdateAddress or DeleteAddress
AddressStatus(err) ==
    IF err = OK THEN "OK"
    ELSE IF err \in {ErrAddressNotFound, ErrNotOwner} THEN "NotFound"
    ELSE "InternalServerError"

\* the address is the request body; the service overwrites its id and user_id
CreateAddressResult(userID, bodyUserID, type, isDefault, f) ==
    LET body == [id |-> Nil, user_id |-> bodyUserID, type |-> type,
                 is_default |-> isDefault]
    IN  repoCreateAddress([body EXCEPT !.id = NewAddressID, !.user_id = userID], f)

CreateAddressReq(userID, bodyUserID, type, isDefault, f) ==
    LET res == CreateAddressResult(userID, bodyUserID, type, isDefault, f)
    IN  /\ res.err = OK => NewAddressID # Nil
        /\ addresses' = res.addresses
        /\ last' = [op |-> "CreateAddress", err |-> res.err,
                    cleared |-> IF res.err = OK /\ isDefault
                                THEN Defaults(addresses, userID, type) ELSE {}]
        /\ UNCHANGED <<users, profiles, verifyTokens, resetTokens, cache, issued, now, inflight>>

CreateAddress ==
    \E userID \in UserIDs, bodyUserID \in BodyUserIDs, type \in AddressTypes,
       isDefault \in BOOLEAN, f \in Faults(CreateAddressCalls) :
       CreateAddressReq(userID, bodyUserID, type, isDefault, f)

UpdateAddressCalls == {"GetAddressByID", "Begin", "UnsetDefaults", "Update", "Commit"}

UpdateAddressResult_NoOwnerCheck(userID, addressID, type, isDefault, f) ==
    IF "GetAddressByID" \in f \/ GetAddressByID(addressID) = Nil
    THEN [err |-> ErrAddressNotFound, addresses |-> addresses]
    ELSE repoUpdateAddress([id |-> addressID, user_id |-> userID, type |-> type,
                            is_default |-> isDefault], f)

UpdateAddressResult(userID, addressID, type, isDefault, f) ==
    IF "GetAddressByID" \in f \/ GetAddressByID(addressID) = Nil
    THEN [err |-> ErrAddressNotFound, addresses |-> addresses]
    ELSE IF addresses[addressID].user_id # userID
    THEN [err |-> ErrNotOwner, addresses |-> addresses]
    ELSE repoUpdateAddress([id |-> addressID, user_id |-> userID, type |-> type,
                            is_default |-> isDefault], f)

UpdateAddressReq(userID, addressID, type, isDefault, f) ==
    LET res == UpdateAddressResult(userID, addressID, type, isDefault, f) IN
    /\ addresses' = res.addresses
    /\ last' = [op |-> "UpdateAddress", err |-> res.err]
    /\ UNCHANGED <<users, profiles, verifyTokens, resetTokens, cache, issued, now, inflight>>

UpdateAddress ==
    \E userID \in UserIDs, addressID \in AddressIDs, type \in AddressTypes,
       isDefault \in BOOLEAN, f \in Faults(UpdateAddressCalls) :
       UpdateAddressReq(userID, addressID, type, isDefault, f)

DeleteAddressCalls == {"GetAddressByID", "Delete"}

DeleteAddressResult(userID, addressID, f) ==
    IF "GetAddressByID" \in f \/ GetAddressByID(addressID) = Nil
    THEN [err |-> ErrAddressNotFound, addresses |-> addresses]
    ELSE IF addresses[addressID].user_id # userID
    THEN [err |-> ErrNotOwner, addresses |-> addresses]
    ELSE repoDeleteAddress(addressID, f)

DeleteAddressReq(userID, addressID, f) ==
    LET res == DeleteAddressResult(userID, addressID, f) IN
    /\ addresses' = res.addresses
    /\ last' = [op |-> "DeleteAddress", err |-> res.err]
    /\ UNCHANGED <<users, profiles, verifyTokens, resetTokens, cache, issued, now, inflight>>

DeleteAddress ==
    \E userID \in UserIDs, addressID \in AddressIDs, f \in Faults(DeleteAddressCalls) :
       DeleteAddressReq(userID, addressID, f)

----------------------------------------------------------------------------
\* DB.Transaction called with a callback of the caller's

TransactionCalls == {"Begin", "Rollback", "Commit"}

\* how a callback ends: it returns nil, returns an error, or panics
Outcomes == {OK, ErrCallback, ErrPanic}

\* what a callback writes through tx before it ends: the defaults of
\* (userID, type) cleared and, while an id is free, a new default inserted
Writes(userID, type) ==
    LET tbl == UnsetDefaults(addresses, userID, type, Nil)
    IN  IF NewAddressID = Nil THEN tbl
        ELSE [a \in DOMAIN tbl \cup {NewAddressID} |->
                IF a = NewAddressID
                THEN [user_id |-> userID, type |-> type, is_default |-> TRUE]
                ELSE tbl[a]]

TransactionReq(userID, type, outcome, f) ==
    LET res == Transaction([err |-> outcome, addresses |-> Writes(userID, type)], f)
    IN  /\ addresses' = res.addresses
        /\ last' = [op |-> "Transaction", err |-> res.err]
        /\ UNCHANGED <<users, profiles, verifyTokens, resetTokens, cache, issued, now,
                       inflight>>

TransactionAny ==
    \E userID \in UserIDs, type \in AddressTypes, outcome \in Outcomes,
       f \in Faults(TransactionCalls) :
       TransactionReq(userID, type, outcome, f)

----------------------------------------------------------------------------

\* Credential store: CreateAddress transactions run concurrently.  Beginx
\* opens the transaction at the database's default isolation level (read
\* committed): a statement sees the rows committed before it starts and the
\* transaction's own writes, and an UPDATE waits for a row another open
\* transaction has updated.  An entry of inflight is an open transaction:
\* unset are the rows its UPDATE cleared, id the row its INSERT will add.

\* uuid.New(): an id no row and no open transaction has
NewAddressIDAmong(taken) ==
    IF AddressIDs \ (Stored \cup taken) = {} THEN Nil
    ELSE CHOOSE id \in AddressIDs \ (Stored \cup taken) :
            \A o \in AddressIDs \ (Stored \cup taken) : id <= o

\* Beginx, and the UPDATE that clears the defaults of (userID, type)
CreateAddressBeginReq(req, userID, type, isDefault, f) ==
    LET id == NewAddressIDAmong({r.id : r \in inflight})
        matched == IF isDefault
                   THEN {a \in Stored : addresses[a].user_id = userID
                                        /\ addresses[a].type = type}
                   ELSE {}
    IN  /\ req \notin {r.req : r \in inflight}
        /\ id # Nil
        /\ \A r \in inflight : r.unset \cap matched = {}
        /\ IF "Begin" \in f \/ (isDefault /\ "UnsetDefaults" \in f)
           THEN /\ inflight' = inflight
                /\ last' = [op |-> "CreateAddress", err |-> ErrPersistence,
                            pc |-> "returned"]
           ELSE /\ inflight' = inflight \cup
                       {[req |-> req, id |-> id, user_id |-> userID, type |-> type,
                         is_default |-> isDefault, unset |-> matched]}
                /\ last' = [op |-> "CreateAddress", err |-> OK, pc |-> "in transaction"]
        /\ UNCHANGED <<users, profiles, verifyTokens, resetTokens, addresses, cache, issued,
                       now>>

CreateAddressBegin ==
    \E req \in Requests, userID \in UserIDs, type \in AddressTypes, isDefault \in BOOLEAN,
       f \in Faults({"Begin", "UnsetDefaults"}) :
       CreateAddressBeginReq(req, userID, type, isDefault, f)

\* the INSERT and the commit: the rows the transaction cleared and the row it
\* inserted become visible together, or none does
CreateAddressCommitReq(r, f) ==
    LET err == IF "Insert" \in f \/ "Commit" \in f THEN ErrPersistence ELSE OK
    IN  /\ r \in inflight
        /\ inflight' = inflight \ {r}
        /\ addresses' =
              IF err # OK THEN addresses
              ELSE [a \in Stored \cup {r.id} |->
                      IF a = r.id
                      THEN [user_id |-> r.user_id, type |-> r.type,
                            is_default |-> r.is_default]
                      ELSE IF a \in r.unset THEN [addresses[a] EXCEPT !.is_default = FALSE]
                      ELSE addresses[a]]
        /\ last' = [op |-> "CreateAddress", err |-> err, pc |-> "returned"]
        /\ UNCHANGED <<users, profiles, verifyTokens, resetTokens, cache, issued, now>>

CreateAddressCommit ==
    \E r \in inflight, f \in Faults({"Insert", "Commit"}) : CreateAddressCommitReq(r, f)

----------------------------------------------------------------------------

\* Protected routes: AuthMiddleware in front of the handlers

\* what a client can put after "Bearer": every token handed out, and what can
\* be made of one without the key
Credentials == HandedOut \cup {Tamper(issued[i].pair.AccessToken) : i \in 1..Len(issued)}

\* An Authorization header: n is the number of parts strings.Split(header, " ")
\* gives (0: no header), scheme the first part and token the second
NoHeader == [n |-> 0, scheme |-> "", token |-> Nil]

AuthorizationHeaders ==
    {NoHeader}
      \cup [n : {2}, scheme : {"Bearer", "Basic"}, token : Credentials]
      \cup [n : {3}, scheme : {"Bearer"}, token : Credentials]

ErrHeaderRequired == "Authorization header required"
ErrHeaderFormat == "Invalid authorization header format"
ErrInvalidAccessToken == "Invalid token"
ErrUnauthorized == "Unauthorized"

AuthMiddleware_NoValidation(header) ==
    IF header.n = 0
    THEN [next |-> FALSE, status |-> 401, error |-> ErrHeaderRequired, user_id |-> Nil]
    ELSE IF header.n # 2 \/ header.scheme # "Bearer"
    THEN [next |-> FALSE, status |-> 401, error |-> ErrHeaderFormat, user_id |-> Nil]
    ELSE [next |-> TRUE, status |-> 200, error |-> OK,
          user_id |-> ValidateAccessToken(header.token).UserID]

\* next: whether c.Next() is reached; user_id: what c.Set("user_id", ...) stored
AuthMiddleware(header) ==
    IF header.n = 0
    THEN [next |-> FALSE, status |-> 401, error |-> ErrHeaderRequired, user_id |-> Nil]
    ELSE IF header.n # 2 \/ header.scheme # "Bearer"
    THEN [next |-> FALSE, status |-> 401, error |-> ErrHeaderFormat, user_id |-> Nil]
    ELSE IF ValidateAccessToken(header.token).err # OK
    THEN [next |-> FALSE, status |-> 401, error |-> ErrInvalidAccessToken, user_id |-> Nil]
    ELSE [next |-> TRUE, status |-> 200, error |-> OK,
          user_id |-> ValidateAccessToken(header.token).UserID]

\* c.Abort(): the chain stops at the middleware and no handler runs
Aborted(header) ==
    /\ last' = [op |-> "AuthMiddleware", err |-> AuthMiddleware(header).error,
                status |-> AuthMiddleware(header).status]
    /\ UNCHANGED <<users, profiles, verifyTokens, resetTokens, addresses, cache, issued, now, inflight>>

\* a handler whose getUserIDFromContext gives uuid.Nil answers 401 itself
NoUserID(op) ==
    /\ last' = [op |-> op, err |-> ErrUnauthorized]
    /\ UNCHANGED <<users, profiles, verifyTokens, resetTokens, addresses, cache, issued, now, inflight>>

\* POST /api/v1/users/resend-verification
PostResendVerificationReq(header) ==
    IF ~AuthMiddleware(header).next THEN Aborted(header)
    ELSE IF AuthMiddleware(header).user_id = Nil THEN NoUserID("ResendEmailVerification")
    ELSE \E f \in Faults(ResendEmailVerificationCalls) :
            ResendEmailVerificationReq(AuthMiddleware(header).user_id, f)

PostResendVerification ==
    \E header \in AuthorizationHeaders : PostResendVerificationReq(header)

\* POST /api/v1/users/change-password
PostChangePasswordReq(header) ==
    IF ~AuthMiddleware(header).next THEN Aborted(header)
    ELSE IF AuthMiddleware(header).user_id = Nil THEN NoUserID("ChangePassword")
    ELSE \E currentPassword \in Passwords, newPassword \in Passwords, salt \in Salts,
            f \in Faults(ChangePasswordCalls) :
            ChangePasswordReq(AuthMiddleware(header).user_id, currentPassword,
                              newPassword, salt, f)

PostChangePassword ==
    \E header \in AuthorizationHeaders : PostChangePasswordReq(header)

\* a login in which every call answers
LoginAnswered ==
    \E identifier \in Identifiers, password \in Passwords : LoginReq(identifier, password, {})

----------------------------------------------------------------------------
\* Authentication service: UpdateProfile

UpdateProfileCalls == {"GetByID", "Update"}

\* the values the optional fields of an UpdateUserRequest take; NoString is a
\* field the request leaves out
FirstNames == {NoString, <<"John">>, <<"Jane">>}
LastNames == {NoString, <<"Doe">>}
Phones == {NoString, <<"+1234567890">>}
UpdateUserRequests == [first_name : FirstNames, last_name : LastNames, phone : Phones]

\* the ids a token can carry: the registered ones and one with no row
ProfileUserIDs == UserIDs \cup {Cardinality(UserIDs) + 1}

\* every field of the request assigned, present or not
UpdateFields_Overwrite(user, req) ==
    [user EXCEPT !.first_name = req.first_name,
                 !.last_name = req.last_name,
                 !.phone = req.phone]

\* if req.FirstName != nil { user.FirstName = req.FirstName }, and likewise
\* for LastName and Phone
UpdateFields(user, req) ==
    [user EXCEPT !.first_name = IF req.first_name # NoString THEN req.first_name ELSE @,
                 !.last_name = IF req.last_name # NoString THEN req.last_name ELSE @,
                 !.phone = IF req.phone # NoString THEN req.phone ELSE @]

UpdateProfileErr(userID, req, f) ==
    IF "GetByID" \in f \/ GetByID(userID) = Nil THEN ErrUserNotFound
    ELSE IF "Update" \in f THEN ErrPersistence
    ELSE repoUpdate(userID, UpdateFields(users[userID], req)).err

UpdateProfileReq(userID, req, f) ==
    LET err == UpdateProfileErr(userID, req, f)
    IN  /\ IF err # OK
           THEN /\ users' = users
                /\ last' = [op |-> "UpdateProfile", err |-> err, user_id |-> userID,
                            req |-> req, view |-> [id |-> Nil]]
           ELSE /\ users' = repoUpdate(userID, UpdateFields(users[userID], req)).users
                /\ last' = [op |-> "UpdateProfile", err |-> OK, user_id |-> userID,
                            req |-> req,
                            view |-> ToResponse(userID, UpdateFields(users[userID], req))]
        /\ UNCHANGED <<profiles, verifyTokens, resetTokens, addresses, cache, issued, now,
                       inflight>>

UpdateProfile ==
    \E userID \in ProfileUserIDs, req \in UpdateUserRequests,
       f \in Faults(UpdateProfileCalls) :
       UpdateProfileReq(userID, req, f)

----------------------------------------------------------------------------

\* Protected routes: profile and addresses.  The store answers every call of
\* these requests, and an address body names no user and asks for the default
\* shipping address.

\* the bodies sent to PUT /profile here: a first name and nothing else
ProfileBodies ==
    {req \in UpdateUserRequests :
        req.first_name = <<"John">> /\ req.last_name = NoString /\ req.phone = NoString}

\* PUT /api/v1/users/profile
PutProfileReq(header) ==
    IF ~AuthMiddleware(header).next THEN Aborted(header)
    ELSE IF AuthMiddleware(header).user_id = Nil THEN NoUserID("UpdateProfile")
    ELSE \E req \in ProfileBodies :
            UpdateProfileReq(AuthMiddleware(header).user_id, req, {})

PutProfile ==
    \E header \in AuthorizationHeaders : PutProfileReq(header)

\* POST /api/v1/users/addresses
PostAddressesReq(header) ==
    IF ~AuthMiddleware(header).next THEN Aborted(header)
    ELSE IF AuthMiddleware(header).user_id = Nil THEN NoUserID("CreateAddress")
    ELSE CreateAddressReq(AuthMiddleware(header).user_id, Nil, "shipping", TRUE, {})

PostAddresses ==
    \E header \in AuthorizationHeaders : PostAddressesReq(header)

----------------------------------------------------------------------------

\* Authentication service served concurrently: the operations that read a
\* user row, change the copy and write it back with repository Update.  Each
\* call runs in the goroutine of its request, so the statements of other
\* requests can run between its reads and its writes.  A call is an entry of
\* inflight: pc is "read" once the reads are done and the copy is changed,
\* "returned" once the writes are done; user is the copy.

\* the reads found what the call needs
Began(req, op, userID, row, tokenID) ==
    /\ inflight' = inflight \cup
           {[req |-> req, op |-> op, pc |-> "read", err |-> OK,
             user_id |-> userID, user |-> row, token_id |-> tokenID]}
    /\ last' = [op |-> op, err |-> OK, pc |-> "read"]
    /\ UNCHANGED <<users, profiles, verifyTokens, resetTokens, addresses, cache, issued, now>>

\* the call returns an error before it writes
Refused(op, err) ==
    /\ last' = [op |-> op, err |-> err, pc |-> "returned"]
    /\ UNCHANGED <<users, profiles, verifyTokens, resetTokens, addresses, cache, issued, now,
                   inflight>>

\* UpdateProfile: GetByID, then the fields of the request assigned
UpdateProfileRead(req, userID, body, f) ==
    /\ req \notin {r.req : r \in inflight}
    /\ IF "GetByID" \in f \/ GetByID(userID) = Nil
       THEN Refused("UpdateProfile", ErrUserNotFound)
       ELSE Began(req, "UpdateProfile", userID, UpdateFields(users[userID], body), Nil)

\* ChangePassword: GetByID, verifyPassword, hashPassword
ChangePasswordRead(req, userID, currentPassword, newPassword, salt, f) ==
    /\ req \notin {r.req : r \in inflight}
    /\ IF "GetByID" \in f \/ GetByID(userID) = Nil
       THEN Refused("ChangePassword", ErrUserNotFound)
       ELSE IF ~verifyPassword(currentPassword, users[userID].password_hash)
       THEN Refused("ChangePassword", ErrIncorrectPassword)
       ELSE IF "hashPassword" \in f
       THEN Refused("ChangePassword", ErrPersistence)
       ELSE Began(req, "ChangePassword", userID,
                  [users[userID] EXCEPT !.password_hash = hashPassword(newPassword, salt)],
                  Nil)

\* ResetPassword: GetPasswordResetToken, GetByID, hashPassword
ResetPasswordRead(req, token, newPassword, salt, f) ==
    LET id == ResetPasswordToken(token, f) IN
    /\ req \notin {r.req : r \in inflight}
    /\ IF id = Nil
       THEN Refused("ResetPassword", ErrInvalidResetToken)
       ELSE IF "GetByID" \in f \/ GetByID(resetTokens[id].user_id) = Nil
       THEN Refused("ResetPassword", ErrUserNotFound)
       ELSE IF "hashPassword" \in f
       THEN Refused("ResetPassword", ErrPersistence)
       ELSE Began(req, "ResetPassword", resetTokens[id].user_id,
                  [users[resetTokens[id].user_id] EXCEPT
                      !.password_hash = hashPassword(newPassword, salt)],
                  id)

\* VerifyEmail: GetEmailVerificationToken, GetByID, user.IsVerified = true
VerifyEmailRead(req, token, f) ==
    LET id == VerifyEmailToken(token, f) IN
    /\ req \notin {r.req : r \in inflight}
    /\ IF id = Nil
       THEN Refused("VerifyEmail", ErrInvalidVerificationToken)
       ELSE IF "GetByID" \in f \/ GetByID(verifyTokens[id].user_id) = Nil
       THEN Refused("VerifyEmail", ErrUserNotFound)
       ELSE Began(req, "VerifyEmail", verifyTokens[id].user_id,
                  [users[verifyTokens[id].user_id] EXCEPT !.is_verified = TRUE], id)

UpdateProfileBegin ==
    \E req \in Requests, userID \in UserIDs, body \in ProfileBodies,
       f \in Faults({"GetByID"}) :
       UpdateProfileRead(req, userID, body, f)

ChangePasswordBegin ==
    \E req \in Requests, userID \in UserIDs, currentPassword \in Passwords,
       newPassword \in Passwords, salt \in Salts, f \in Faults({"GetByID", "hashPassword"}) :
       ChangePasswordRead(req, userID, currentPassword, newPassword, salt, f)

ResetPasswordBegin ==
    \E req \in Requests, token \in ResetTokenValues, newPassword \in Passwords,
       salt \in Salts, f \in Faults({"GetPasswordResetToken", "GetByID", "hashPassword"}) :
       ResetPasswordRead(req, token, newPassword, salt, f)

VerifyEmailBegin ==
    \E req \in Requests, token \in VerifyTokenValues,
       f \in Faults({"GetEmailVerificationToken", "GetByID"}) :
       VerifyEmailRead(req, token, f)

\* a ForgotPassword in which every call answers
ForgotPasswordAnswered ==
    \E email \in RequestEmails : ForgotPasswordReq(email, {})

WriteBackCalls == {"Update", "MarkPasswordResetTokenUsed", "MarkEmailVerificationTokenUsed"}

\* the rest of the call: repo.Update(user) with the copy, then the token of a
\* ResetPassword or VerifyEmail marked used (a failure of that is logged)
WriteBackReq(r, f) ==
    LET err == IF "Update" \in f THEN ErrPersistence
               ELSE repoUpdate(r.user_id, r.user).err
    IN  /\ r \in inflight
        /\ r.pc = "read"
        /\ users' = IF err # OK THEN users ELSE repoUpdate(r.user_id, r.user).users
        /\ resetTokens' =
              IF err = OK /\ r.op = "ResetPassword" /\ "MarkPasswordResetTokenUsed" \notin f
              THEN MarkPasswordResetTokenUsed(r.token_id)
              ELSE resetTokens
        /\ verifyTokens' =
              IF err = OK /\ r.op = "VerifyEmail"
                          /\ "MarkEmailVerificationTokenUsed" \notin f
              THEN MarkEmailVerificationTokenUsed(r.token_id)
              ELSE verifyTokens
        /\ inflight' = (inflight \ {r}) \cup {[r EXCEPT !.pc = "returned", !.err = err]}
        /\ last' = [op |-> r.op, err |-> err, pc |-> "returned"]
        /\ UNCHANGED <<profiles, addresses, cache, issued, now>>

WriteBack ==
    \E r \in inflight, f \in Faults(WriteBackCalls) : WriteBackReq(r, f)

----------------------------------------------------------------------------

\* Authentication service: Login and RefreshToken calls run concurrently.
\* Each call is split where another call's cache commands can run: up to and
\* including GenerateTokenPair (the cache GET of RefreshToken included), and
\* the cache SET that follows.  An entry of inflight is a call that has a
\* pair: n is the position of its pair in issued, token the refresh token of
\* the pair, from the jti of the refresh token presented (0 for Login), and
\* order the rank of its SET among the SETs the cache has executed (0 when
\* the SET has not run or has failed).  Redis executes one command at a time.

Callers == 1..(MaxInflight + 1)

\* call numbers are handed out in order of arrival
Arriving == {c \in Callers : \A o \in Callers : o < c <=> o \in {r.req : r \in inflight}}

Generated(req, op, u, tokenPair, from) ==
    /\ issued' = Append(issued, Issue(tokenPair, u, op, {"SetWithExpiration"}))
    /\ inflight' = inflight \cup
          {[req |-> req, op |-> op, pc |-> "generated", user_id |-> u,
            n |-> Len(issued) + 1, token |-> tokenPair.RefreshToken,
            from |-> from, order |-> 0]}
    /\ last' = [op |-> op, err |-> OK, pc |-> "generated"]

LoginGenerateReq(req, identifier, password, f) ==
    LET err == LoginErr(identifier, password, f)
        u == LoginUser(identifier, f)
        tokenPair == GenerateTokenPair(u, users[u].email, users[u].username, users[u].role)
    IN  /\ req \notin {r.req : r \in inflight}
        /\ IF err # OK
           THEN /\ UNCHANGED <<users, issued, inflight>>
                /\ last' = [op |-> "Login", err |-> err, pc |-> "returned"]
           ELSE /\ users' = IF "UpdateLastLogin" \in f THEN users
                            ELSE repoUpdateLastLogin(u)
                /\ Generated(req, "Login", u, tokenPair, 0)
        /\ UNCHANGED <<profiles, verifyTokens, resetTokens, addresses, cache, now>>

LoginGenerate ==
    \E req \in Arriving, identifier \in Identifiers, password \in Passwords,
       f \in Faults(LoginCalls \ {"SetWithExpiration"}) :
       LoginGenerateReq(req, identifier, password, f)

RefreshGenerateReq(req, refreshToken, f) ==
    LET err == RefreshTokenErr(refreshToken, f)
        u == refreshToken.sub
        tokenPair == GenerateTokenPair(u, users[u].email, users[u].username, users[u].role)
    IN  /\ req \notin {r.req : r \in inflight}
        /\ IF err # OK
           THEN /\ UNCHANGED <<issued, inflight>>
                /\ last' = [op |-> "RefreshToken", err |-> err, pc |-> "returned"]
           ELSE Generated(req, "RefreshToken", u, tokenPair, refreshToken.jti)
        /\ UNCHANGED <<users, profiles, verifyTokens, resetTokens, addresses, cache, now>>

RefreshGenerate ==
    \E req \in Arriving, refreshToken \in Presentable,
       f \in Faults(RefreshCalls \ {"SetWithExpiration"}) :
       RefreshGenerateReq(req, refreshToken, f)

\* the SET of a call that has its pair, and the call's return
CacheWriteReq(r, f) ==
    LET done == "SetWithExpiration" \notin f
        rank == Cardinality({o \in inflight : o.order > 0}) + 1
    IN  /\ r \in inflight
        /\ r.pc = "generated"
        /\ cache' = IF done THEN SetWithExpiration(r.user_id, r.token, RefreshTTL)
                    ELSE cache
        /\ issued' = [issued EXCEPT ![r.n].cached = done]
        /\ inflight' = (inflight \ {r}) \cup
              {[r EXCEPT !.pc = "returned", !.order = IF done THEN rank ELSE 0]}
        /\ last' = [op |-> r.op, err |-> OK, pc |-> "returned"]
        /\ UNCHANGED <<users, profiles, verifyTokens, resetTokens, addresses, now>>

CacheWrite ==
    \E r \in inflight, f \in Faults({"SetWithExpiration"}) : CacheWriteReq(r, f)

----------------------------------------------------------------------------

\* Credential store: Delete (deactivation), and the clock

DeleteReq(id) ==
    /\ users' = repoDelete(id).users
    /\ last' = [op |-> "Delete", err |-> repoDelete(id).err]
    /\ UNCHANGED <<profiles, verifyTokens, resetTokens, addresses, cache, issued, now, inflight>>

Delete == \E id \in UserIDs : DeleteReq(id)

\* time passes, up to limit
TickTo(limit) ==
    /\ now < limit
    /\ now' = now + 1
    /\ last' = [op |-> "Tick", err |-> OK]
    /\ UNCHANGED <<users, profiles, verifyTokens, resetTokens, addresses, cache, issued,
                   inflight>>

Tick == TickTo(MaxTime)

----------------------------------------------------------------------------
\* Credential store: the token operations of userRepository, called directly

\* token strings a caller may store or present
TokenStrings == {1, 2}

\* whose tokens are stored: no statement on a token table reads user_id
\* except the INSERT, so one owner covers the lookups
TokenOwners == {CHOOSE u \in UserIDs : TRUE}

\* the rows the SELECT of a fetch-if-valid lookup matches:
\* WHERE token = $1 AND used_at IS NULL AND expires_at > NOW()
Selected_IgnoreUsed(tbl, token) ==
    {i \in 1..Len(tbl) : tbl[i].token = token /\ tbl[i].expires_at > now}

Selected(tbl, token) ==
    {i \in 1..Len(tbl) :
        tbl[i].token = token /\ tbl[i].used_at = NULL /\ tbl[i].expires_at > now}

\* db.GetContext scans the first row of the result, in no stated order, and
\* sql.ErrNoRows becomes "invalid or expired token"
Fetched(tbl, token) ==
    IF Selected(tbl, token) = {}
    THEN {[err |-> ErrInvalidToken, row |-> Nil]}
    ELSE {[err |-> OK, row |-> i] : i \in Selected(tbl, token)}

\* INSERT INTO ... (id, user_id, token, expires_at): token has no UNIQUE constraint
Inserted(tbl, userID, token, ttl) ==
    Append(tbl, [user_id |-> userID, token |-> token, expires_at |-> now + ttl,
                 used_at |-> NULL])

Marked_Toggle(tbl, tokenID) ==
    [i \in 1..Len(tbl) |->
        IF i = tokenID
        THEN [tbl[i] EXCEPT !.used_at = IF tbl[i].used_at = NULL THEN now ELSE NULL]
        ELSE tbl[i]]

\* UPDATE ... SET used_at = NOW() WHERE id = $1: no error when no row matches
Marked(tbl, tokenID) ==
    [i \in 1..Len(tbl) |-> IF i = tokenID THEN [tbl[i] EXCEPT !.used_at = now] ELSE tbl[i]]

\* whether the row named was used before the call
WasUsed(tbl, tokenID) == tokenID \in 1..Len(tbl) /\ tbl[tokenID].used_at # NULL

CreatePasswordResetToken ==
    \E userID \in TokenOwners, token \in TokenStrings :
       /\ Len(resetTokens) + Len(verifyTokens) < MaxRows
       /\ resetTokens' = Inserted(resetTokens, userID, token, ResetTTL)
       /\ last' = [op |-> "CreatePasswordResetToken", err |-> OK]
       /\ UNCHANGED <<users, profiles, verifyTokens, addresses, cache, issued, now, inflight>>

repoGetPasswordResetToken ==
    \E token \in TokenStrings : \E res \in Fetched(resetTokens, token) :
       /\ last' = [op |-> "GetPasswordResetToken", err |-> res.err,
                   token |-> token, row |-> res.row]
       /\ UNCHANGED <<users, profiles, verifyTokens, resetTokens, addresses, cache,
                      issued, now, inflight>>

repoMarkPasswordResetTokenUsed ==
    \E tokenID \in 0..MaxRows :
       /\ resetTokens' = Marked(resetTokens, tokenID)
       /\ last' = [op |-> "MarkPasswordResetTokenUsed", err |-> OK,
                   row |-> tokenID, again |-> WasUsed(resetTokens, tokenID)]
       /\ UNCHANGED <<users, profiles, verifyTokens, addresses, cache, issued, now, inflight>>

CreateEmailVerificationToken ==
    \E userID \in TokenOwners, token \in TokenStrings :
       /\ Len(resetTokens) + Len(verifyTokens) < MaxRows
       /\ verifyTokens' = Inserted(verifyTokens, userID, token, VerifyTTL)
       /\ last' = [op |-> "CreateEmailVerificationToken", err |-> OK]
       /\ UNCHANGED <<users, profiles, resetTokens, addresses, cache, issued, now, inflight>>

repoGetEmailVerificationToken ==
    \E token \in TokenStrings : \E res \in Fetched(verifyTokens, token) :
       /\ last' = [op |-> "GetEmailVerificationToken", err |-> res.err,
                   token |-> token, row |-> res.row]
       /\ UNCHANGED <<users, profiles, verifyTokens, resetTokens, addresses, cache,
                      issued, now, inflight>>

repoMarkEmailVerificationTokenUsed ==
    \E tokenID \in 0..MaxRows :
       /\ verifyTokens' = Marked(verifyTokens, tokenID)
       /\ last' = [op |-> "MarkEmailVerificationTokenUsed", err |-> OK,
                   row |-> tokenID, again |-> WasUsed(verifyTokens, tokenID)]
       /\ UNCHANGED <<users, profiles, resetTokens, addresses, cache, issued, now, inflight>>

----------------------------------------------------------------------------
\* Initial states

\* the service after construction: empty tables, empty cache
Init ==
    /\ users = <<>>
    /\ profiles = {}
    /\ verifyTokens = <<>>
    /\ resetTokens = <<>>
    /\ addresses = <<>>
    /\ cache = <<>>
    /\ issued = <<>>
    /\ now = 0
    /\ inflight = {}
    /\ last = [op |-> "Init", err |-> OK]

\* the state after Register("alice", "alice@x.com", "pw1") and
\* Register("bob", "bob@x.com", "pw2") have succeeded at time 0
InitRegistered ==
    /\ users = [u \in 1..2 |->
                  [username |-> IF u = 1 THEN "alice" ELSE "bob",
                   email |-> IF u = 1 THEN "alice@x.com" ELSE "bob@x.com",
                   password_hash |-> hashPassword(IF u = 1 THEN "pw1" ELSE "pw2", "salt1"),
                   first_name |-> NoString, last_name |-> NoString, phone |-> NoString,
                   is_active |-> TRUE, is_verified |-> FALSE,
                   role |-> "customer", last_login_at |-> NULL]]
    /\ profiles = {1, 2}
    /\ verifyTokens = [i \in 1..2 |->
                         [user_id |-> i, token |-> i, expires_at |-> VerifyTTL, used_at |-> NULL]]
    /\ resetTokens = <<>>
    /\ addresses = <<>>
    /\ cache = <<>>
    /\ issued = <<>>
    /\ now = 0
    /\ inflight = {}
    /\ last = [op |-> "Init", err |-> OK]

\* two registered users whose verification tokens were not stored (Register
\* goes on when generateEmailVerificationToken fails), and empty token tables
InitStore ==
    /\ users = [u \in 1..2 |->
                  [username |-> IF u = 1 THEN "alice" ELSE "bob",
                   email |-> IF u = 1 THEN "alice@x.com" ELSE "bob@x.com",
                   password_hash |-> hashPassword(IF u = 1 THEN "pw1" ELSE "pw2", "salt1"),
                   first_name |-> NoString, last_name |-> NoString, phone |-> NoString,
                   is_active |-> TRUE, is_verified |-> FALSE,
                   role |-> "customer", last_login_at |-> NULL]]
    /\ profiles = {}
    /\ verifyTokens = <<>>
    /\ resetTokens = <<>>
    /\ addresses = <<>>
    /\ cache = <<>>
    /\ issued = <<>>
    /\ now = 0
    /\ inflight = {}
    /\ last = [op |-> "Init", err |-> OK]

----------------------------------------------------------------------------
\* Specifications

\* registration, from the empty store
NextRegister == Register \/ Delete
SpecRegister == Init /\ [][NextRegister]_vars

\* registration requests served concurrently, from the empty store
NextConcurrent == RegisterLookup \/ RegisterCreate
SpecConcurrent == Init /\ [][NextConcurrent]_vars

\* profile updates of two registered users, some of them deactivated
NextProfile == UpdateProfile \/ Delete
SpecProfile == InitRegistered /\ [][NextProfile]_vars

\* logins whose store and cache calls answer, refreshes, and the clock
NextSubject == LoginAnswered \/ RefreshToken \/ Tick
SpecSubject == InitRegistered /\ [][NextSubject]_vars

\* the profile, password and address routes, for two registered users who log in
NextBearer == LoginAnswered \/ PutProfile \/ PostChangePassword \/ PostAddresses
SpecBearer == InitRegistered /\ [][NextBearer]_vars

\* transactions on the address table and address deletions
NextTransaction == TransactionAny \/ DeleteAddress
SpecTransaction == InitRegistered /\ [][NextTransaction]_vars

\* password resets served concurrently, for two registered users who ask for
\* reset tokens
NextResetRace == ForgotPasswordAnswered \/ ResetPasswordBegin \/ WriteBack
SpecResetRace == InitRegistered /\ [][NextResetRace]_vars

\* the calls that write a user row back, served concurrently for two
\* registered users, with deactivations
NextFlagRace ==
    VerifyEmailBegin \/ UpdateProfileBegin \/ ChangePasswordBegin \/ WriteBack \/ Delete
SpecFlagRace == InitRegistered /\ [][NextFlagRace]_vars

\* CreateAddress transactions run concurrently, for two registered users
NextAddressRace == CreateAddressBegin \/ CreateAddressCommit
SpecAddressRace == InitRegistered /\ [][NextAddressRace]_vars

\* Login and RefreshToken calls run concurrently, for two registered users
NextTokenRace == LoginGenerate \/ RefreshGenerate \/ CacheWrite
SpecTokenRace == InitRegistered /\ [][NextTokenRace]_vars

\* token issuance and the refresh flow, for two registered users
NextToken == Login \/ RefreshToken \/ Tick
SpecToken == InitRegistered /\ [][NextToken]_vars

\* password change and reset, for two registered users
NextPassword == ChangePassword \/ ForgotPassword \/ ResetPassword \/ Tick
SpecPassword == InitRegistered /\ [][NextPassword]_vars

\* address management, for two registered users
NextAddress == CreateAddress \/ UpdateAddress \/ DeleteAddress
SpecAddress == InitRegistered /\ [][NextAddress]_vars

\* registration and login, from the empty store.  CreateUserRequest.Username
\* admits any string of 3 to 50 characters, an email address included, so the
\* usernames registered here are drawn from Identifiers.
RegisterNamed ==
    \E username \in Identifiers, email \in Emails, password \in Passwords, salt \in Salts :
       RegisterReq(username, email, password, salt, {})

NextLogin == RegisterNamed \/ Login
SpecLogin == Init /\ [][NextLogin]_vars

\* login and deactivation, for two registered users
NextDeactivate == Login \/ Delete
SpecDeactivate == InitRegistered /\ [][NextDeactivate]_vars

\* email verification, for two registered users, with the clock run until a
\* verification token has expired
NextVerify == VerifyEmail \/ ResendEmailVerification \/ TickTo(VerifyTTL)
SpecVerify == InitRegistered /\ [][NextVerify]_vars

\* sessions of users who are deactivated, for two registered users
NextRevoke == Login \/ RefreshToken \/ Delete
SpecRevoke == InitRegistered /\ [][NextRevoke]_vars

\* the token tables under the repository's own operations
NextStore ==
    \/ CreatePasswordResetToken \/ repoGetPasswordResetToken
    \/ repoMarkPasswordResetTokenUsed
    \/ CreateEmailVerificationToken \/ repoGetEmailVerificationToken
    \/ repoMarkEmailVerificationTokenUsed
    \/ TickTo(VerifyTTL)
SpecStore == InitStore /\ [][NextStore]_vars

\* two protected routes, for two registered users who log in
NextProtected == LoginAnswered \/ PostResendVerification \/ PostChangePassword \/ Tick
SpecProtected == InitRegistered /\ [][NextProtected]_vars



----------------------------------------------------------------------------
\* Claims on the token service and the refresh flow (SpecToken)

\* C1: a refresh token issued by GenerateTokenPair is rejected by
\* ValidateAccessToken: no token with the refresh audience yields claims.
C1_RefreshTokenRejectedAsAccess ==
    \A t \in Presentable :
        t.aud = RefreshAudience => ValidateAccessToken(t).err # OK

\* every access token handed out is refused by ValidateRefreshToken and by the
\* refresh flow
C2_AccessTokenRejected ==
    \A t \in HandedOut :
        t.aud = AccessAudience =>
            /\ ValidateRefreshToken(t).err # OK
            /\ \A f \in Faults(RefreshCalls) : RefreshTokenErr(t, f) # OK

\* C2: an access token issued by GenerateTokenPair is rejected by
\* ValidateRefreshToken, and RefreshToken called with one fails, issues no
\* pair and leaves the cache alone.
C2_AccessTokenRejectedAsRefresh ==
    /\ []C2_AccessTokenRejected
    /\ [][ last'.op = "RefreshToken" =>
              \/ last'.err # OK /\ issued' = issued /\ cache' = cache
              \/ \A t \in Presentable, f \in Faults(RefreshCalls) :
                     t.aud # AccessAudience \/ ~RefreshTokenReq(t, f) ]_vars

\* an unexpired, well-signed access token was presented to RefreshToken and refused
C2_Witness == last.op = "RefreshToken" /\ last.err = ErrRefreshAudience

\* the presented token validates and is the live cache entry of its subject
C6_Matches(t, f) ==
    /\ ValidateRefreshToken(t).err = OK
    /\ "GetString" \notin f
    /\ t.sub \in DOMAIN cache
    /\ now < cache[t.sub].expire_at
    /\ cache[t.sub].value = t

\* C6: RefreshToken issues a pair only if the presented token passes
\* ValidateRefreshToken and equals the value the cache returns for its
\* subject; on a miss, a read error or any difference it fails, issues
\* nothing and writes nothing.
C6_RefreshOnlyOnCacheMatch ==
    [][ last'.op = "RefreshToken" =>
          /\ last'.err = OK <=> Len(issued') = Len(issued) + 1
          /\ \/ last'.err # OK /\ issued' = issued /\ cache' = cache
             \/ \A t \in Presentable, f \in Faults(RefreshCalls) :
                    C6_Matches(t, f) \/ ~RefreshTokenReq(t, f) ]_vars

\* a refresh succeeded, and a later one with a valid token the cache does not
\* hold was refused
C6_Witness ==
    /\ last.op = "RefreshToken" /\ last.err = ErrRefreshNotFound
    /\ \E i \in 1..Len(issued) : issued[i].op = "RefreshToken"

\* the refresh flow accepts the refresh token of the i-th issuance
C7_Accepted(i) ==
    \E f \in Faults(RefreshCalls) : RefreshTokenErr(issued[i].pair.RefreshToken, f) = OK

\* C7 as stated: a refresh token the refresh flow accepts is the one of the
\* user's most recent issuance; every token issued earlier is rejected.
C7_OnlyLatestAccepted ==
    \A i \in 1..Len(issued) :
        C7_Accepted(i) =>
            \A j \in 1..Len(issued) : j > i => issued[j].user # issued[i].user

\* C7, amended: a refresh token the refresh flow accepts is the one of the
\* user's most recent issuance whose cache write succeeded; so at most one
\* per user is accepted.
C7_OnlyLatestCachedAccepted ==
    \A i \in 1..Len(issued) :
        C7_Accepted(i) =>
            /\ issued[i].cached
            /\ \A j \in 1..Len(issued) :
                 (j > i /\ issued[j].user = issued[i].user) => ~issued[j].cached

\* a second issuance for a user replaced the cached token: the new one is
\* accepted and the earlier one refused
C7_Witness ==
    \E i, j \in 1..Len(issued) :
        /\ i < j /\ issued[i].user = issued[j].user /\ issued[j].cached
        /\ RefreshTokenErr(issued[j].pair.RefreshToken, {}) = OK
        /\ RefreshTokenErr(issued[i].pair.RefreshToken, {}) = ErrRefreshNotFound

----------------------------------------------------------------------------
\* Claims on password change and reset (SpecPassword)

\* the passwords the stored hash of user u verifies
Verifies(u) == {p \in Passwords : verifyPassword(p, users[u].password_hash)}

\* the state a successful ChangePassword is to leave
C3_After(u, currentPassword, newPassword) ==
    /\ verifyPassword(newPassword, users[u].password_hash)
    /\ users[u].is_active =>
         /\ LoginErr(users[u].username, newPassword, {}) = OK
         /\ currentPassword # newPassword =>
              LoginErr(users[u].username, currentPassword, {}) = ErrInvalidCredentials

\* C3: after ChangePassword(userID, currentPassword, newPassword) succeeds,
\* the stored hash is that of newPassword: for an active user Login with
\* newPassword succeeds, and Login with a different old password fails with
\* InvalidCredentials.
C3_ChangePasswordTakesEffect ==
    [][ (last'.op = "ChangePassword" /\ last'.err = OK) =>
          \A u \in UserIDs, cur \in Passwords, new \in Passwords, salt \in Salts,
             f \in Faults(ChangePasswordCalls) :
             \/ ~ChangePasswordReq(u, cur, new, salt, f)
             \/ C3_After(u, cur, new)' ]_vars

\* the state a successful ResetPassword is to leave
C4_After(u, previous, newPassword) ==
    /\ verifyPassword(newPassword, users[u].password_hash)
    /\ users[u].is_active =>
         /\ LoginErr(users[u].username, newPassword, {}) = OK
         /\ \A p \in previous \ {newPassword} :
                LoginErr(users[u].username, p, {}) # OK

\* C4: after ResetPassword(token, newPassword) succeeds, the owner's stored
\* hash is that of newPassword: for an active owner Login with newPassword
\* succeeds and Login with a different previous password fails.
C4_ResetPasswordTakesEffect ==
    [][ (last'.op = "ResetPassword" /\ last'.err = OK) =>
          \A tok \in ResetTokenValues, new \in Passwords, salt \in Salts,
             f \in Faults(ResetPasswordCalls) :
             \/ ~ResetPasswordReq(tok, new, salt, f)
             \/ \E u \in Registered :
                   /\ u = resetTokens[ResetPasswordToken(tok, f)].user_id
                   /\ \E previous \in SUBSET Passwords :
                         previous = Verifies(u) /\ C4_After(u, previous, new)' ]_vars

\* C5: of two ResetPassword calls, one after the other, with the value of a
\* token that was unused and unexpired before the first, the first succeeds
\* and the second fails with InvalidOrExpiredToken (every store call of the
\* first answering).
C5_ResetTokenSingleUse ==
    [][ last'.op = "ResetPassword" =>
          \A tok \in ResetTokenValues, new \in Passwords, salt \in Salts :
             \/ GetPasswordResetToken(tok) = Nil
             \/ ~ResetPasswordReq(tok, new, salt, {})
             \/ /\ last'.err = OK
                /\ \A f \in Faults(ResetPasswordCalls) :
                      ResetPasswordErr(tok, f)' = ErrInvalidResetToken ]_vars

\* the second call: an unexpired token, used by an earlier ResetPassword, was
\* presented again and refused
C5_Witness ==
    /\ last.op = "ResetPassword" /\ last.err = ErrInvalidResetToken
    /\ last.token \in 1..Len(resetTokens)
    /\ resetTokens[last.token].used_at # NULL
    /\ resetTokens[last.token].expires_at > now

----------------------------------------------------------------------------
\* Claims on address management (SpecAddress)

\* C8: after a CreateAddress with is_default = true that follows another of
\* the same user and type, exactly one address of that user and type is the
\* default, and it is the one just created.
C8_NewDefaultIsOnlyDefault ==
    [][ (last'.op = "CreateAddress" /\ last'.err = OK) =>
          \A u \in UserIDs, b \in BodyUserIDs, type \in AddressTypes,
             f \in Faults(CreateAddressCalls) :
             \/ ~CreateAddressReq(u, b, type, TRUE, f)
             \/ Defaults(addresses', u, type) = {NewAddressID} ]_vars

\* the second CreateAddress succeeded and took the default from an earlier address
C8_Witness ==
    last.op = "CreateAddress" /\ last.err = OK /\ last.cleared # {}

\* C9: in every reachable state each (user, type) has at most one address
\* with is_default = true.
C9_AtMostOneDefault ==
    \A u \in UserIDs, type \in AddressTypes :
        Cardinality(Defaults(addresses, u, type)) <= 1

----------------------------------------------------------------------------
\* Claims on registration (SpecRegister)

\* C10: Register with an email or a username that a stored user has fails and
\* creates no user row; it fails with Conflict (the existence lookups
\* answering).
C10_DuplicateRegisterConflicts ==
    [][ last'.op = "Register" =>
          \/ users' = users /\ last'.err = ErrConflict
          \/ \A un \in Usernames, em \in Emails, pw \in Passwords, salt \in Salts,
                f \in Faults(RegisterCalls) :
                \/ GetByEmail(em) = Nil /\ GetByUsername(un) = Nil
                \/ /\ users' = users
                   /\ last'.err # OK
                   /\ f \cap {"GetByEmail", "GetByUsername"} = {} => last'.err = ErrConflict
                \/ ~RegisterReq(un, em, pw, salt, f) ]_vars

\* a Register met a stored user's email or username and was refused
C10_Witness ==
    last.op = "Register" /\ last.err = ErrConflict /\ Registered # {}

\* what a successful Register(username, email, password) is to leave and return
C11_Registered(id, username, email, view) ==
    /\ id \in DOMAIN users
    /\ users[id].username = username /\ users[id].email = email
    /\ users[id].is_active /\ ~users[id].is_verified
    /\ users[id].role = "customer"
    /\ "password_hash" \notin DOMAIN view
    /\ view.id = id /\ view.username = username /\ view.email = email
    /\ view.is_active /\ ~view.is_verified /\ view.role = "customer"

\* C11: a Register whose username and email are both unused succeeds (the
\* hashing and the INSERT answering), stores a user with active = true,
\* verified = false and role "customer", and returns a public view that holds
\* no password hash.
C11_RegisterStoresCustomer ==
    [][ last'.op = "Register" =>
          \A un \in Usernames, em \in Emails, pw \in Passwords, salt \in Salts,
             f \in Faults(RegisterCalls) :
             \/ GetByEmail(em) # Nil \/ GetByUsername(un) # Nil
             \/ f \cap {"hashPassword", "Create"} # {}
             \/ ~RegisterReq(un, em, pw, salt, f)
             \/ /\ last'.err = OK
                /\ \E id \in UserIDs \ Registered :
                      C11_Registered(id, un, em, last.view)' ]_vars

\* a second user was registered, and the view returned is that of the stored row
C11_Witness ==
    /\ last.op = "Register" /\ last.err = OK
    /\ Cardinality(Registered) = 2
    /\ \E id \in Registered : C11_Registered(id, last.view.username, last.view.email, last.view)

\* C19: when the user row is created but the profile creation or the
\* verification-token creation fails, Register still succeeds with the public
\* view and the user row stays stored.
C19_RegisterBestEffort ==
    [][ last'.op = "Register" =>
          \A un \in Usernames, em \in Emails, pw \in Passwords, salt \in Salts,
             f \in Faults(RegisterCalls) :
             \/ f \cap {"CreateProfile", "CreateEmailVerificationToken"} = {}
             \/ f \cap {"hashPassword", "Create"} # {}
             \/ GetByEmail(em) # Nil \/ GetByUsername(un) # Nil
             \/ ~RegisterReq(un, em, pw, salt, f)
             \/ /\ last'.err = OK
                /\ last'.view.id # Nil /\ last'.view.username = un /\ last'.view.email = em
                /\ \E id \in DOMAIN users' \ Registered :
                      users'[id].username = un /\ users'[id].email = em ]_vars

\* a Register succeeded although the profile or the verification token was not stored
C19_Witness ==
    /\ last.op = "Register" /\ last.err = OK
    /\ \E id \in Registered :
          /\ last.view.id = id
          /\ \/ id \notin profiles
             \/ \A i \in 1..Len(verifyTokens) : verifyTokens[i].user_id # id

\* C20: when the session-cache write or the last-login update fails during a
\* Login with correct credentials for an active user, Login still returns the
\* token pair.
C20_LoginBestEffort ==
    [][ last'.op = "Login" =>
          \A ident \in Identifiers, pw \in Passwords, f \in Faults(LoginCalls) :
             \/ f = {} \/ ~(f \subseteq {"UpdateLastLogin", "SetWithExpiration"})
             \/ LoginErr(ident, pw, {}) # OK
             \/ ~LoginReq(ident, pw, f)
             \/ /\ last'.err = OK
                /\ Len(issued') = Len(issued) + 1
                /\ issued'[Len(issued')].user = LoginUser(ident, {})
                /\ issued'[Len(issued')].pair.TokenType = "Bearer"
                /\ issued'[Len(issued')].pair.AccessToken.sub = LoginUser(ident, {}) ]_vars

\* a Login succeeded although its cache write failed
C20_Witness ==
    /\ last.op = "Login" /\ last.err = OK
    /\ issued # <<>>
    /\ issued[Len(issued)].op = "Login" /\ ~issued[Len(issued)].cached

----------------------------------------------------------------------------
\* Claims on login (SpecLogin, SpecDeactivate)

\* Login(identifier, password) succeeds, and Login with any other password is
\* refused as invalid credentials
C12_OnlyPasswordOpens(identifier, password) ==
    /\ LoginErr(identifier, password, {}) = OK
    /\ \A other \in Passwords \ {password} :
          LoginErr(identifier, other, {}) = ErrInvalidCredentials

\* an identifier that matches no user is refused as invalid credentials
C12_UnknownRefused ==
    \A identifier \in Identifiers, password \in Passwords, f \in Faults(LoginCalls) :
        (GetByEmail(identifier) = Nil /\ GetByUsername(identifier) = Nil)
            => LoginErr(identifier, password, f) = ErrInvalidCredentials

\* the pair a successful Login returns: Bearer, with an access and a refresh
\* token that validate
C12_PairReturned ==
    last.op = "Login" /\ last.err = OK =>
        /\ issued # <<>>
        /\ issued[Len(issued)].pair.TokenType = "Bearer"
        /\ ValidateAccessToken(issued[Len(issued)].pair.AccessToken).err = OK
        /\ ValidateRefreshToken(issued[Len(issued)].pair.RefreshToken).err = OK

\* C12 as stated: after a successful Register(username, email, password),
\* Login with that username or that email and the password returns a Bearer
\* pair, Login with the same identifier and another password fails with
\* InvalidCredentials, and so does Login with an identifier of no user.
C12_RegisterThenLogin ==
    /\ []C12_UnknownRefused
    /\ []C12_PairReturned
    /\ [][ (last'.op = "Register" /\ last'.err = OK) =>
             \A un \in Identifiers, em \in Emails, pw \in Passwords, salt \in Salts :
                \/ ~RegisterReq(un, em, pw, salt, {})
                \/ C12_OnlyPasswordOpens(un, pw)' /\ C12_OnlyPasswordOpens(em, pw)' ]_vars

\* C12, amended: the same, for a username that is not the email address of a
\* stored user (Login resolves the identifier as an email first).
C12_RegisterThenLoginByOwnName ==
    /\ []C12_UnknownRefused
    /\ []C12_PairReturned
    /\ [][ (last'.op = "Register" /\ last'.err = OK) =>
             \A un \in Identifiers, em \in Emails, pw \in Passwords, salt \in Salts :
                \/ ~RegisterReq(un, em, pw, salt, {})
                \/ /\ C12_OnlyPasswordOpens(em, pw)'
                   /\ (GetByEmail(un) = Nil)' => C12_OnlyPasswordOpens(un, pw)' ]_vars

\* a registered user logged in and was returned a pair
C12_Witness ==
    /\ last.op = "Login" /\ last.err = OK
    /\ issued # <<>>
    /\ issued[Len(issued)].user \in Registered
    /\ issued[Len(issued)].pair.AccessToken.username = users[issued[Len(issued)].user].username

\* C13: Login for a user whose active flag is false fails, with
\* AccountDeactivated when the password is correct, issues no pair and writes
\* neither the session cache nor the last-login timestamp.
C13_DeactivatedRefused ==
    [][ last'.op = "Login" =>
          \A ident \in Identifiers, pw \in Passwords, f \in Faults(LoginCalls) :
             \/ LoginUser(ident, f) = Nil
             \/ users[LoginUser(ident, f)].is_active
             \/ /\ last'.err # OK
                /\ verifyPassword(pw, users[LoginUser(ident, f)].password_hash)
                      => last'.err = ErrAccountDeactivated
                /\ issued' = issued /\ cache' = cache /\ users' = users
             \/ ~LoginReq(ident, pw, f) ]_vars

\* a Login for a deactivated user was refused, and the correct password is refused so
C13_Witness ==
    /\ last.op = "Login" /\ last.err = ErrAccountDeactivated
    /\ \E ident \in Identifiers, pw \in Passwords :
          /\ LoginUser(ident, {}) # Nil
          /\ ~users[LoginUser(ident, {})].is_active
          /\ verifyPassword(pw, users[LoginUser(ident, {})].password_hash)
          /\ LoginErr(ident, pw, {}) = ErrAccountDeactivated

\* C14: whenever the identifier resolves to a user and the password check
\* fails, Login fails with InvalidCredentials, whatever the user's active flag.
C14_WrongPasswordInvalidCredentials ==
    \A ident \in Identifiers, pw \in Passwords :
        (/\ LoginUser(ident, {}) # Nil
         /\ ~verifyPassword(pw, users[LoginUser(ident, {})].password_hash))
            => LoginErr(ident, pw, {}) = ErrInvalidCredentials

----------------------------------------------------------------------------
\* Claims on ForgotPassword (SpecPassword)

\* C15: ForgotPassword returns the same success result whether or not a user
\* has the email, also when the store fails while creating the reset token.
C15_ForgotPasswordAlwaysSucceeds ==
    last.op = "ForgotPassword" => last.err = OK

----------------------------------------------------------------------------
\* Claims on address ownership (SpecAddress)

\* C16: UpdateAddress and DeleteAddress by a caller who is not the owner of
\* the address row are answered NotFound and leave every address unchanged;
\* CreateAddress stores the new address under the caller's user id, whatever
\* user id the request body carries.
C16_OwnershipEnforced ==
    /\ \A u \in UserIDs, a \in Stored : addresses[a].user_id # u =>
          /\ \A type \in AddressTypes, d \in BOOLEAN, f \in Faults(UpdateAddressCalls) :
                LET res == UpdateAddressResult(u, a, type, d, f) IN
                AddressStatus(res.err) = "NotFound" /\ res.addresses = addresses
          /\ \A f \in Faults(DeleteAddressCalls) :
                LET res == DeleteAddressResult(u, a, f) IN
                AddressStatus(res.err) = "NotFound" /\ res.addresses = addresses
    /\ \A u \in UserIDs, b \in BodyUserIDs, type \in AddressTypes, d \in BOOLEAN,
          f \in Faults(CreateAddressCalls) :
          LET res == CreateAddressResult(u, b, type, d, f) IN
          (res.err = OK /\ NewAddressID # Nil) =>
              /\ DOMAIN res.addresses = Stored \cup {NewAddressID}
              /\ res.addresses[NewAddressID].user_id = u

\* a caller asked to change or remove an address of another user and was
\* refused, in a state where a CreateAddress with another user's id in its
\* body can still succeed
C16_Witness ==
    /\ last.op \in {"UpdateAddress", "DeleteAddress"}
    /\ last.err = ErrNotOwner
    /\ \E a \in Stored, u \in UserIDs : addresses[a].user_id # u
    /\ \E u \in UserIDs : \E b \in BodyUserIDs \ {u, Nil} :
          CreateAddressResult(u, b, "shipping", FALSE, {}).err = OK /\ NewAddressID # Nil

----------------------------------------------------------------------------
\* Claims on email verification (SpecVerify)

\* the rows of a verification token value that are unused and unexpired
C17_Usable(token) ==
    {i \in 1..Len(verifyTokens) :
        /\ verifyTokens[i].token = token
        /\ verifyTokens[i].used_at = NULL
        /\ now < verifyTokens[i].expires_at}

\* C17: VerifyEmail with an unused, unexpired token sets the owner's verified
\* flag and marks the token used, so that a second VerifyEmail with the token
\* fails with InvalidOrExpiredToken; with an unknown, used or expired token it
\* fails with InvalidOrExpiredToken and changes no user.
C17_VerifyEmailConsumesToken ==
    [][ last'.op = "VerifyEmail" =>
          \A token \in VerifyTokenValues :
             \/ /\ C17_Usable(token) # {}
                /\ last'.err = OK
                /\ \A i \in C17_Usable(token) :
                      /\ users'[verifyTokens[i].user_id].is_verified
                      /\ verifyTokens'[i].used_at # NULL
                /\ VerifyEmailErr(token, {})' = ErrInvalidVerificationToken
             \/ /\ C17_Usable(token) = {}
                /\ last'.err = ErrInvalidVerificationToken
                /\ users' = users
             \/ ~VerifyEmailReq(token, {}) ]_vars

\* a VerifyEmail succeeded: its token is used and its owner verified
C17_Witness ==
    /\ last.op = "VerifyEmail" /\ last.err = OK
    /\ \E i \in 1..Len(verifyTokens) :
          verifyTokens[i].used_at # NULL /\ users[verifyTokens[i].user_id].is_verified

\* C18: ResendEmailVerification for a verified user fails with AlreadyVerified
\* and creates no token; otherwise it stores one new verification token and
\* leaves the user's earlier tokens as they were, so that VerifyEmail still
\* accepts each earlier unused, unexpired token.
C18_ResendKeepsEarlierTokens ==
    [][ last'.op = "ResendEmailVerification" =>
          \A u \in UserIDs :
             \/ /\ users[u].is_verified
                /\ last'.err = ErrAlreadyVerified
                /\ verifyTokens' = verifyTokens
             \/ /\ ~users[u].is_verified
                /\ last'.err = OK
                /\ Len(verifyTokens') = Len(verifyTokens) + 1
                /\ verifyTokens'[Len(verifyTokens')].user_id = u
                /\ \A i \in 1..Len(verifyTokens) :
                      /\ verifyTokens'[i] = verifyTokens[i]
                      /\ i \in C17_Usable(verifyTokens[i].token)
                            => VerifyEmailErr(verifyTokens[i].token, {})' = OK
             \/ ~ResendEmailVerificationReq(u, {}) ]_vars

\* a resend succeeded for a user who holds an earlier token that is still usable
C18_Witness ==
    /\ last.op = "ResendEmailVerification" /\ last.err = OK
    /\ \E i, j \in 1..Len(verifyTokens) :
          /\ i < j /\ j = Len(verifyTokens)
          /\ verifyTokens[i].user_id = verifyTokens[j].user_id
          /\ i \in C17_Usable(verifyTokens[i].token)
          /\ j \in C17_Usable(verifyTokens[j].token)

----------------------------------------------------------------------------
\* Claims on the sessions of deactivated users (SpecRevoke)

\* RefreshToken fails for every presentable token whose subject is deactivated
C21_DeactivatedFails ==
    \A refreshToken \in Presentable, f \in Faults(RefreshCalls) :
        (refreshToken.sub \in Registered /\ ~users[refreshToken.sub].is_active)
            => RefreshTokenErr(refreshToken, f) # OK

\* C21: RefreshToken for a user whose active flag is false fails, issues no
\* pair and leaves the session cache as it was, also when the refresh token
\* is valid and equals the cached value.
C21_DeactivatedNotRefreshed ==
    /\ []C21_DeactivatedFails
    /\ [][ (last'.op = "RefreshToken" /\ last'.err # OK)
              => issued' = issued /\ cache' = cache ]_vars

\* a deactivated user presented the valid, cached refresh token and was refused
C21_Witness ==
    /\ last.op = "RefreshToken" /\ last.err = ErrAccountDeactivated
    /\ \E refreshToken \in RefreshTokens :
          /\ ValidateRefreshToken(refreshToken).err = OK
          /\ ~CacheMismatch(refreshToken.sub, refreshToken, {})
          /\ ~users[refreshToken.sub].is_active

----------------------------------------------------------------------------
\* Claims on the token tables (SpecStore)

\* some stored row of the value is unused and expires later than now
C22_Unconsumed(tbl, token) ==
    \E i \in 1..Len(tbl) :
        tbl[i].token = token /\ tbl[i].used_at = NULL /\ now < tbl[i].expires_at

\* what a lookup of the value in the table must have answered
C22_Answer(tbl) ==
    IF C22_Unconsumed(tbl, last.token)
    THEN /\ last.err = OK
         /\ last.row \in 1..Len(tbl)
         /\ tbl[last.row].token = last.token
         /\ tbl[last.row].used_at = NULL
         /\ now < tbl[last.row].expires_at
    ELSE last.err = ErrInvalidToken /\ last.row = Nil

\* C22: GetPasswordResetToken and GetEmailVerificationToken return a token
\* for a value if and only if a stored token of that value has used_at unset
\* and expires_at later than now, and fail with "invalid or expired token"
\* otherwise.
C22_FetchIffUnconsumed ==
    /\ last.op = "GetPasswordResetToken" => C22_Answer(resetTokens)
    /\ last.op = "GetEmailVerificationToken" => C22_Answer(verifyTokens)

\* a lookup was refused for a value whose only rows are used or expired
C22_Witness ==
    /\ last.op \in {"GetPasswordResetToken", "GetEmailVerificationToken"}
    /\ last.err = ErrInvalidToken
    /\ \E i \in 1..Len(resetTokens) :
          resetTokens[i].token = last.token /\ resetTokens[i].used_at # NULL
    /\ \E i \in 1..Len(verifyTokens) :
          verifyTokens[i].token = last.token /\ verifyTokens[i].used_at = NULL
             /\ ~(now < verifyTokens[i].expires_at)

\* a used row stays used, and no lookup selects it
C27_StaysUsed(tbl, after) ==
    \A i \in 1..Len(tbl) : tbl[i].used_at # NULL =>
        /\ after[i].used_at # NULL
        /\ i \notin Selected(tbl, tbl[i].token)

\* C27: MarkPasswordResetTokenUsed and MarkEmailVerificationTokenUsed on a
\* token that is already used return no error and leave it used, and a token
\* that was marked used is never again returned by the fetch-if-valid lookup.
C27_MarkUsedIdempotent ==
    [][ /\ C27_StaysUsed(resetTokens, resetTokens')
        /\ C27_StaysUsed(verifyTokens, verifyTokens')
        /\ last'.op = "MarkPasswordResetTokenUsed" =>
              /\ last'.err = OK
              /\ last'.row \in 1..Len(resetTokens) => resetTokens'[last'.row].used_at # NULL
        /\ last'.op = "MarkEmailVerificationTokenUsed" =>
              /\ last'.err = OK
              /\ last'.row \in 1..Len(verifyTokens) => verifyTokens'[last'.row].used_at # NULL
        /\ last'.op \in {"GetPasswordResetToken", "GetEmailVerificationToken"} =>
              \/ last'.err # OK
              \/ (IF last'.op = "GetPasswordResetToken" THEN resetTokens
                  ELSE verifyTokens)[last'.row].used_at = NULL ]_vars

\* a token that was already used was marked used again
C27_Witness ==
    /\ last.op \in {"MarkPasswordResetTokenUsed", "MarkEmailVerificationTokenUsed"}
    /\ last.err = OK
    /\ last.again
    /\ (IF last.op = "MarkPasswordResetTokenUsed" THEN resetTokens
        ELSE verifyTokens)[last.row].used_at # NULL

----------------------------------------------------------------------------
\* Claims on the address transaction (SpecAddress)

\* a step of the transaction around the address write fails
C23_StepFails(id, isDefault, write, f) ==
    \/ "Begin" \in f
    \/ isDefault /\ "UnsetDefaults" \in f
    \/ write \in f
    \/ id \notin Stored
    \/ "Commit" \in f

\* repository CreateAddress and UpdateAddress, for every address and failure:
\* a failing step gives an error, and with an error the table is as before
C23_AllOrNothing ==
    \A u \in UserIDs, type \in AddressTypes, d \in BOOLEAN :
       /\ \A id \in AddressIDs, f \in Faults(UpdateAddressCalls) :
             LET res == repoUpdateAddress([id |-> id, user_id |-> u, type |-> type,
                                           is_default |-> d], f)
             IN  /\ C23_StepFails(id, d, "Update", f) => res.err # OK
                 /\ res.err # OK => res.addresses = addresses
       /\ \A id \in AddressIDs \ Stored, f \in Faults(CreateAddressCalls) :
             LET res == repoCreateAddress([id |-> id, user_id |-> u, type |-> type,
                                           is_default |-> d], f)
             IN  /\ (f # {} /\ (d \/ f # {"UnsetDefaults"})) => res.err # OK
                 /\ res.err # OK => res.addresses = addresses

\* C23: when a step inside the CreateAddress or UpdateAddress transaction
\* fails (UpdateAddress affecting no row included), the clearing of is_default
\* on the user's other addresses is not persisted: the stored addresses are
\* those before the call, and the caller gets the error.
C23_TransactionAtomic ==
    /\ []C23_AllOrNothing
    /\ [][ (last'.op \in {"CreateAddress", "UpdateAddress"} /\ last'.err # OK)
              => addresses' = addresses ]_vars

\* a CreateAddress or UpdateAddress failed in a state where its transaction
\* has a default to clear before the write that fails
C23_Witness ==
    /\ last.op \in {"CreateAddress", "UpdateAddress"} /\ last.err # OK
    /\ \E u \in UserIDs, type \in AddressTypes, id \in AddressIDs \ Stored :
          /\ Defaults(addresses, u, type) # {}
          /\ repoUpdateAddress([id |-> id, user_id |-> u, type |-> type,
                                is_default |-> TRUE], {}).err = ErrAddressNotFound

----------------------------------------------------------------------------
\* Claims on the protected routes (SpecProtected)

\* the header is "Bearer <token>" with a token that ValidateAccessToken passes
C24_Authorized(header) ==
    /\ header.n = 2 /\ header.scheme = "Bearer"
    /\ ValidateAccessToken(header.token).err = OK

\* the middleware lets exactly the authorized headers through, and answers
\* the others 401
C24_MiddlewareAnswers ==
    \A header \in AuthorizationHeaders :
        LET res == AuthMiddleware(header) IN
        /\ res.next <=> C24_Authorized(header)
        /\ ~res.next => res.status = 401
        /\ header.n = 0 => res.error = ErrHeaderRequired

\* C24: a handler of a protected route runs only for a request whose
\* Authorization header is "Bearer <token>" with a token ValidateAccessToken
\* passes; a request without the header gets 401 "Authorization header
\* required", one with a malformed header or a token that fails validation
\* gets 401, and then no handler runs and no state changes.
C24_OnlyAuthorizedReachHandlers ==
    /\ []C24_MiddlewareAnswers
    /\ [][ /\ last'.op \in {"ResendEmailVerification", "ChangePassword"} =>
                 \E header \in AuthorizationHeaders : C24_Authorized(header)
           /\ last'.op = "AuthMiddleware" =>
                 /\ last'.status = 401
                 /\ \E header \in AuthorizationHeaders :
                       ~C24_Authorized(header) /\ last'.err = AuthMiddleware(header).error
                 /\ addresses' = addresses /\ users' = users /\ cache' = cache
                 /\ issued' = issued /\ verifyTokens' = verifyTokens
                 /\ resetTokens' = resetTokens /\ profiles' = profiles
                 /\ now' = now ]_vars

\* a request with a token that fails validation was answered by the
\* middleware while the handler had a verification token to store
C24_Witness ==
    /\ last.op = "AuthMiddleware" /\ last.err = ErrInvalidAccessToken
    /\ Len(verifyTokens) < MaxVerify
    /\ \E u \in UserIDs : ResendEmailVerificationErr(u, {}) = OK

----------------------------------------------------------------------------
\* Claims on refreshed pairs (SpecToken)

\* C25: the pair a successful RefreshToken returns differs, in its access
\* token and in its refresh token, from the pair Login returned.
C25_RefreshedPairDiffers ==
    \A i, j \in 1..Len(issued) :
        (i < j /\ issued[i].op = "Login" /\ issued[j].op = "RefreshToken"
           /\ issued[i].user = issued[j].user) =>
            /\ issued[j].pair.AccessToken # issued[i].pair.AccessToken
            /\ issued[j].pair.RefreshToken # issued[i].pair.RefreshToken

\* a RefreshToken with the refresh token of a Login succeeded at the time of
\* that Login
C25_Witness ==
    /\ last.op = "RefreshToken" /\ last.err = OK
    /\ \E i, j \in 1..Len(issued) :
          /\ i < j /\ issued[i].op = "Login" /\ issued[j].op = "RefreshToken"
          /\ issued[i].user = issued[j].user
          /\ issued[i].pair.AccessToken.nbf = issued[j].pair.AccessToken.nbf

----------------------------------------------------------------------------
\* Claims on deactivation in the store (SpecRegister)

\* every page List can return holds active users only
C26_ListOnlyActive ==
    \A limit \in 0..Cardinality(UserIDs), offset \in 0..Cardinality(UserIDs) :
        \A page \in List(limit, offset) : \A u \in page : users[u].is_active

\* C26: no operation of the store removes a user row: Delete only sets the
\* active flag to false, failing with "user not found" when no row has the
\* id; the row stays readable by GetByID, and List returns active users only.
C26_NeverHardDeleted ==
    /\ []C26_ListOnlyActive
    /\ [][ /\ Registered \subseteq DOMAIN users'
           /\ last'.op = "Delete" =>
                 \A id \in UserIDs :
                    \/ /\ id \in Registered
                       /\ last'.err = OK
                       /\ users' = [users EXCEPT ![id].is_active = FALSE]
                       /\ GetByID(id)' = id
                    \/ /\ id \notin Registered
                       /\ last'.err = ErrUserNotFound
                       /\ users' = users
                    \/ ~DeleteReq(id) ]_vars

\* a user was deactivated, is still read by GetByID and is on no page of List
C26_Witness ==
    /\ last.op = "Delete" /\ last.err = OK
    /\ \E u \in Registered :
          /\ ~users[u].is_active
          /\ GetByID(u) = u
          /\ \A page \in List(Cardinality(UserIDs), 0) : u \notin page
    /\ \E page \in List(Cardinality(UserIDs), 0) : page # {}

----------------------------------------------------------------------------
\* Claims on failure propagation (SpecPassword)

\* C28: a failure of a store call that is not one of the best-effort side
\* effects makes the operation return an error: a failed user lookup in
\* ForgotPassword and a failed mark-used in ResetPassword are not swallowed.
C28_FailuresSurface ==
    /\ \A email \in RequestEmails, f \in Faults(ForgotPasswordCalls) :
          "GetByEmail" \in f => ForgotPasswordErr(email, f) # OK
    /\ \A token \in ResetTokenValues, f \in Faults(ResetPasswordCalls) :
          ("MarkPasswordResetTokenUsed" \in f /\ GetPasswordResetToken(token) # Nil)
              => ResetPasswordErr(token, f) # OK

\* C29 (part): the store never holds two rows with the same email or the same
\* username.
C29_OneRowPerIdentity ==
    \A u, v \in Registered :
        u # v => /\ users[u].email # users[v].email
                 /\ users[u].username # users[v].username

\* C29 (part): a request whose lookups found nobody and whose email or username
\* was stored by another request before its own INSERT ran
C29_Lost(r) ==
    GetByEmail(r.email) # Nil \/ GetByUsername(r.username) # Nil

\* C29: when two Register requests for the same email (or username) run
\* concurrently, at most one row with it is ever stored, and the request that
\* loses fails with the conflict ("already exists") error, not with a generic
\* persistence failure.
C29_ConcurrentRegister ==
    /\ []C29_OneRowPerIdentity
    /\ [][\A r \in inflight :
              (C29_Lost(r) /\ RegisterCreateReq(r, {})) => last'.err = ErrConflict]_vars

\* C30 (part): the columns UpdateProfile leaves alone
C30_Frame(before, after) ==
    /\ after.username = before.username
    /\ after.email = before.email
    /\ after.role = before.role
    /\ after.password_hash = before.password_hash
    /\ after.is_active = before.is_active
    /\ after.is_verified = before.is_verified

\* C30 (part): a field the request carries takes the request's value, a field
\* it leaves out keeps the stored one
C30_Field(before, after, req) ==
    IF req # NoString THEN after = req ELSE after = before

\* C30: UpdateProfile changes only the first name, last name and phone that
\* are present in the request and returns the updated view; username, email,
\* role, password hash, active flag and verified flag are the same after the
\* call as before it.  A call that fails changes no row.
C30_UpdateProfileFrame ==
    [][last'.op = "UpdateProfile" =>
          IF last'.err = OK
          THEN LET u == last'.user_id
                   req == last'.req
               IN  /\ u \in Registered
                   /\ DOMAIN users' = Registered
                   /\ \A v \in Registered \ {u} : users'[v] = users[v]
                   /\ C30_Frame(users[u], users'[u])
                   /\ users'[u].last_login_at = users[u].last_login_at
                   /\ C30_Field(users[u].first_name, users'[u].first_name, req.first_name)
                   /\ C30_Field(users[u].last_name, users'[u].last_name, req.last_name)
                   /\ C30_Field(users[u].phone, users'[u].phone, req.phone)
                   /\ last'.view = ToResponse(u, users'[u])
          ELSE users' = users]_vars

\* an update of a deactivated user that carries a phone and no first name,
\* while a first name is stored
C30_Witness ==
    /\ last.op = "UpdateProfile"
    /\ last.err = OK
    /\ last.req.first_name = NoString
    /\ last.req.phone # NoString
    /\ users[last.user_id].first_name # NoString
    /\ ~users[last.user_id].is_active

\* C37 (part): the identifier is the email of one stored user and the username
\* of another
C37_Ambiguous(identifier) ==
    /\ GetByEmail(identifier) # Nil
    /\ GetByUsername(identifier) # Nil
    /\ GetByEmail(identifier) # GetByUsername(identifier)

\* C37: Login resolves the identifier by email first and by username only if
\* the email lookup fails: when the identifier is one user's email and another
\* user's username, Login succeeds exactly when the password is that of the
\* user owning the email, and fails with InvalidCredentials otherwise, even if
\* the password is the other user's; the user of the username is reached only
\* when the email lookup itself fails.
C37_EmailFirst ==
    \A identifier \in Identifiers, password \in Passwords :
        C37_Ambiguous(identifier) =>
            LET byEmail == GetByEmail(identifier)
                byName == GetByUsername(identifier)
            IN  /\ LoginUser(identifier, {}) = byEmail
                /\ LoginUser(identifier, {"GetByEmail"}) = byName
                /\ users[byEmail].is_active =>
                      LoginErr(identifier, password, {}) =
                          IF verifyPassword(password, users[byEmail].password_hash)
                          THEN OK ELSE ErrInvalidCredentials

\* a Login was refused as invalid credentials while some identifier is one
\* user's email and another's username, and the other's password is not the
\* email owner's
C37_Witness ==
    /\ last.op = "Login"
    /\ last.err = ErrInvalidCredentials
    /\ \E identifier \in Identifiers, password \in Passwords :
          /\ C37_Ambiguous(identifier)
          /\ verifyPassword(password, users[GetByUsername(identifier)].password_hash)
          /\ ~verifyPassword(password, users[GetByEmail(identifier)].password_hash)

\* C38 (part): the cache entry under the key of user v is the same after the
\* step as before it
C38_KeyUntouched(v) ==
    /\ (v \in DOMAIN cache') = (v \in DOMAIN cache)
    /\ v \in DOMAIN cache => cache'[v] = cache[v]

\* C38 (part): what a RefreshToken step does when the token presented has
\* subject sub
C38_After(sub) ==
    /\ \A v \in UserIDs \ {sub} : C38_KeyUntouched(v)
    /\ last'.err = OK =>
          LET new == issued'[Len(issued')].pair
          IN  /\ Len(issued') = Len(issued) + 1
              /\ new.AccessToken.sub = sub
              /\ new.AccessToken.user_id = sub
              /\ new.RefreshToken.sub = sub
              /\ ValidateAccessToken(new.AccessToken).UserID = sub
              /\ ValidateRefreshToken(new.RefreshToken).Subject = sub
    /\ last'.err # OK => cache' = cache /\ issued' = issued

----------------------------------------------------------------------------
\* Claims on refresh tokens presented to protected routes (SpecBearer)

\* "Authorization: Bearer <token>"
C39_Bearer(token) == [n |-> 2, scheme |-> "Bearer", token |-> token]

\* C39 (part): whatever the middleware does with a refresh token, it hands no
\* user id to the handler
C39_NoUserForRefreshToken ==
    \A token \in RefreshTokens :
        ~AuthMiddleware(C39_Bearer(token)).next
            \/ AuthMiddleware(C39_Bearer(token)).user_id = Nil

\* C39: a request to a protected route that presents a refresh token as its
\* Bearer token is never served: the profile, password and address handlers
\* answer 401 and no store or cache content changes.
C39_RefreshTokenNotServed ==
    /\ []C39_NoUserForRefreshToken
    /\ [][\A token \in RefreshTokens :
             (\/ PutProfileReq(C39_Bearer(token))
              \/ PostChangePasswordReq(C39_Bearer(token))
              \/ PostAddressesReq(C39_Bearer(token)))
                => /\ last'.err \in {ErrUnauthorized, ErrInvalidAccessToken}
                   /\ last'.op \in {"UpdateProfile", "ChangePassword", "CreateAddress",
                                    "AuthMiddleware"}
                   /\ users' = users /\ addresses' = addresses /\ cache' = cache
                   /\ profiles' = profiles /\ verifyTokens' = verifyTokens
                   /\ resetTokens' = resetTokens /\ issued' = issued]_vars

\* a handler answered 401 Unauthorized while a refresh token that passes
\* ValidateAccessToken was at hand
C39_Witness ==
    /\ last.op \in {"UpdateProfile", "ChangePassword", "CreateAddress"}
    /\ last.err = ErrUnauthorized
    /\ \E token \in RefreshTokens : AuthMiddleware(C39_Bearer(token)).next

----------------------------------------------------------------------------
\* Claims on DB.Transaction (SpecTransaction)

\* C40 (part): what Transaction gives for every callback and every failing
\* call, in the current state
C40_Outcome ==
    \A userID \in UserIDs, type \in AddressTypes, outcome \in Outcomes,
       f \in Faults(TransactionCalls) :
        LET written == Writes(userID, type)
            res == Transaction([err |-> outcome, addresses |-> written], f)
        IN  /\ (outcome = OK /\ "Begin" \notin f /\ "Commit" \notin f)
                  => res.err = OK /\ res.addresses = written
            /\ (outcome # OK /\ "Begin" \notin f)
                  => res.err = outcome /\ res.addresses = addresses
            /\ res.err # OK => res.addresses = addresses
            /\ res.addresses # addresses => outcome = OK

\* C40: DB.Transaction commits exactly when the callback returns nil: if the
\* callback returns an error the transaction is rolled back and that same
\* error is returned, if it panics the transaction is rolled back and the
\* panic is re-raised, and in neither case are the callback's writes visible
\* afterwards.
C40_CommitsOnlyOnNil ==
    /\ []C40_Outcome
    /\ [][(last'.op = "Transaction" /\ last'.err # OK) => addresses' = addresses]_vars

\* a transaction whose callback panicked after clearing a default
C40_Witness ==
    /\ last.op = "Transaction"
    /\ last.err = ErrPanic
    /\ \E userID \in UserIDs, type \in AddressTypes :
          /\ Defaults(addresses, userID, type) # {}
          /\ Writes(userID, type) # addresses

----------------------------------------------------------------------------
\* Claims on concurrent calls that write a user row back (SpecResetRace,
\* SpecFlagRace)

\* the ResetPassword calls that returned success for the token row tokenID
C31_Succeeded(tokenID) ==
    {r \in inflight : /\ r.op = "ResetPassword" /\ r.pc = "returned"
                      /\ r.err = OK /\ r.token_id = tokenID}

\* C31: for every password-reset token and every interleaving of concurrent
\* ResetPassword calls presenting it (and every outcome of the mark-used
\* store call), at most one ResetPassword call succeeds.
C31_ResetTokenConsumedOnce ==
    \A tokenID \in 1..Len(resetTokens) : Cardinality(C31_Succeeded(tokenID)) <= 1

\* C35: the verified flag only moves from false to true: once VerifyEmail has
\* succeeded for a user, that user's stored verified flag is true in every
\* later state, under every interleaving with concurrent UpdateProfile,
\* ChangePassword and ResetPassword calls for the same user.
C35_VerifiedStaysTrue ==
    [][\A u \in Registered : users[u].is_verified => users'[u].is_verified]_vars

\* C36: no Authentication Service operation changes a user's active flag:
\* after repository Delete has deactivated a user, the stored active flag
\* stays false under every interleaving with UpdateProfile, ChangePassword,
\* ResetPassword and VerifyEmail calls for that user, including calls that
\* read the user row before the deactivation.
C36_DeactivatedStaysInactive ==
    [][\A u \in Registered : ~users[u].is_active => ~users'[u].is_active]_vars

----------------------------------------------------------------------------
\* Claims on concurrent address transactions (SpecAddressRace)

\* C32: when two CreateAddress calls with is_default = true for the same user
\* and type run concurrently in separate transactions, after both commit at
\* most one address of that (user, type) has is_default = true.
C32_OneDefaultAfterCommit ==
    inflight = {} =>
        \A userID \in UserIDs, type \in AddressTypes :
            Cardinality(Defaults(addresses, userID, type)) <= 1

----------------------------------------------------------------------------
\* Claims on concurrent Login and RefreshToken calls (SpecTokenRace)

C33_Calls(u) == {r \in inflight : r.user_id = u}

C33_LastWriter(u) ==
    CHOOSE r \in C33_Calls(u) : \A o \in C33_Calls(u) : o.order <= r.order

\* C33: when the concurrent Login and RefreshToken calls of a user have all
\* returned and their cache writes succeeded, the cache holds under the
\* user's key the refresh token written last, a RefreshToken with that token
\* succeeds, and a RefreshToken with any other token issued in the race is
\* rejected.
C33_LastWriterWins ==
    \A u \in UserIDs :
        (/\ C33_Calls(u) # {}
         /\ \A r \in C33_Calls(u) : r.pc = "returned" /\ r.order > 0)
        => /\ GetString(u).err = OK
           /\ GetString(u).value = C33_LastWriter(u).token
           /\ RefreshTokenErr(C33_LastWriter(u).token, {}) = OK
           /\ \A o \in C33_Calls(u) \ {C33_LastWriter(u)} :
                 RefreshTokenErr(o.token, {}) = ErrRefreshNotFound

\* a Login that had its pair before a RefreshToken of the same user had its
\* own, and wrote the cache after it
C33_Witness ==
    \E a \in inflight, b \in inflight :
        /\ a.op = "Login" /\ b.op = "RefreshToken"
        /\ a.user_id = b.user_id
        /\ a.n < b.n /\ a.order > b.order /\ b.order > 0
        /\ \A r \in C33_Calls(a.user_id) : r.pc = "returned" /\ r.order > 0

\* C34: a refresh token is exchanged successfully at most once: of the
\* RefreshToken calls that presented the same token, at most one has
\* returned a new pair.
C34_ExchangedOnce ==
    \A a \in inflight, b \in inflight :
        (/\ a.op = "RefreshToken" /\ a.pc = "returned"
         /\ b.op = "RefreshToken" /\ b.pc = "returned"
         /\ a.from = b.from) => a = b

====
